---- MODULE Spec2Model ----
(***************************************************************************)
(* A model of the persistence and consistency core of vscode_kanbn_mcp:    *)
(* the board index (index.md), the task files (tasks/<id>.md) and the      *)
(* KanbnController operations that keep them together.                      *)
(*                                                                         *)
(* Text is a sequence of one-character strings, so that to_kebab_case and  *)
(* the file codecs are computed character by character as the code does.   *)
(* The disk is kept in decoded form: what KanbnBoard.load / KanbnTask.load *)
(* read back from the text that save wrote.                                *)
(*                                                                         *)
(* Spec, SpecLong and SpecInUse run the controller operations, from no     *)
(* board or from a board in use; SpecCrash adds a renaming update_task     *)
(* that is interrupted between its two writes; SpecBoard and SpecTask call *)
(* the methods of one KanbnBoard object and of one KanbnTask object.       *)
(***************************************************************************)
EXTENDS Integers, Sequences, FiniteSets, TLC

\* ------------------------------------------------------------------ bounds
\* Highest reading of the wall clock (now_iso) within a run.
MaxTime == 1
\* Longest task_ids list handed to reorder_tasks.
MaxOrderLen == 2
\* Number of controller operations in a run of Spec.
MaxOps == 3
\* Number of controller operations in a run of SpecLong.
MaxOpsLong == 4
\* Number of controller operations in a run of SpecInUse.
MaxOpsInUse == 2
\* Number of method calls on the board object in a run of SpecBoard.
MaxBoardCalls == 4
\* Number of method calls on the task object in a run of SpecTask.
MaxTaskCalls == 3
\* Longest tags list handed to KanbnTask.create and KanbnTask.update.
MaxTags == 1
\* Longest text, in characters, handed to to_kebab_case in a run of SpecKebab.
MaxNameLen == 3
\* Number of protocol tool calls in a run of SpecTools.
MaxToolCalls == 3
\* Number of controller operations in a run of SpecOptions.
MaxOptionsOps == 2
\* Number of controller operations in a run of SpecSetup.
MaxSetupOps == 3
\* Number of method calls on the task file in a run of SpecFile.
MaxFileCalls == 2
\* Longest body, in lines, of a task file that was not written by the core.
MaxLines == 3
\* Specifications in the list handed to batch_add_tasks.
MaxBatch == 2
\* Calls that two callers running side by side make between them.
MaxConcurrentCalls == 3

\* ------------------------------------------------------------- characters
\* The part of [A-Z] the names below are written in.
Upper == {"A", "B", "C", "F", "I", "L", "P", "Q", "R", "S"}

\* The part of the special-character class of to_kebab_case the names use.
Special == {" ", "-", "_"}

\* str.lower() on one character.
LowerChar(c) ==
    CASE c = "A" -> "a" [] c = "B" -> "b" [] c = "C" -> "c" [] c = "F" -> "f"
      [] c = "I" -> "i" [] c = "L" -> "l" [] c = "P" -> "p" [] c = "Q" -> "q"
      [] c = "R" -> "r" [] c = "S" -> "s" [] OTHER -> c

\* str.lower() on a text.
LowerText(text) == [i \in 1..Len(text) |-> LowerChar(text[i])]

\* ---------------------------------------------------------- to_kebab_case
\* Index of the first character after the run of uppercase letters at i.
RECURSIVE UpperRunEnd(_, _)
UpperRunEnd(text, i) ==
    IF i <= Len(text) /\ text[i] \in Upper THEN UpperRunEnd(text, i + 1) ELSE i

\* The substitution with a hyphen in front of every capital but the first
\* character: a run of capitals is not kept together.
RECURSIVE HyphenateCapitals_each_capital(_, _)
HyphenateCapitals_each_capital(text, i) ==
    IF i > Len(text) THEN <<>>
    ELSE (IF text[i] \in Upper /\ i > 1 THEN <<"-">> ELSE <<>>)
             \o <<LowerChar(text[i])>> \o HyphenateCapitals_each_capital(text, i + 1)

\* re.sub(r"([A-Z]+(.?))", ...): every match, an uppercase run and the one
\* character after it when there is one, is lower-cased and gets a hyphen in
\* front unless it starts the text; scanning resumes after the match.
RECURSIVE HyphenateCapitals(_, _)
HyphenateCapitals(text, i) ==
    IF i > Len(text) THEN <<>>
    ELSE IF text[i] \in Upper
         THEN LET e == UpperRunEnd(text, i)
                  last == IF e <= Len(text) THEN e ELSE e - 1
              IN (IF i > 1 THEN <<"-">> ELSE <<>>)
                 \o LowerText(SubSeq(text, i, last))
                 \o HyphenateCapitals(text, last + 1)
         ELSE <<text[i]>> \o HyphenateCapitals(text, i + 1)

\* re.split on runs of special characters: the fragments, empty ones included
\* (they occur only at the two ends).
RECURSIVE SplitSpecial(_, _, _)
SplitSpecial(text, i, cur) ==
    IF i > Len(text) THEN <<cur>>
    ELSE IF text[i] \in Special
         THEN IF i > 1 /\ text[i - 1] \in Special
              THEN SplitSpecial(text, i + 1, cur)
              ELSE <<cur>> \o SplitSpecial(text, i + 1, <<>>)
         ELSE SplitSpecial(text, i + 1, Append(cur, text[i]))

\* "-".join(p for p in parts if p)
RECURSIVE JoinNonEmpty(_)
JoinNonEmpty(parts) ==
    IF parts = <<>> THEN <<>>
    ELSE LET rest == JoinNonEmpty(Tail(parts))
         IN IF Head(parts) = <<>> THEN rest
            ELSE IF rest = <<>> THEN Head(parts)
            ELSE Head(parts) \o <<"-">> \o rest

\* str.strip(chars) for a set of characters.
RECURSIVE StripChars(_, _)
StripChars(text, chars) ==
    IF text = <<>> THEN <<>>
    ELSE IF Head(text) \in chars THEN StripChars(Tail(text), chars)
    ELSE IF text[Len(text)] \in chars
         THEN StripChars(SubSeq(text, 1, Len(text) - 1), chars)
    ELSE text

to_kebab_case(text) ==
    StripChars(JoinNonEmpty(SplitSpecial(HyphenateCapitals(text, 1), 1, <<>>)), {"-"})

\* ------------------------------------------------------------ input domains
\* Task names the callers supply: two names deriving the same identifier, a
\* camelCase name, and a name that collapses to the empty identifier.
Names == { <<"a">>, <<"A">>, <<"a", "B">>, <<" ">> }

\* to_kebab_case on the names the callers supply, computed once.
KebabOf == [name \in Names |-> to_kebab_case(name)]

\* Identifiers the callers pass to move_task, update_task and delete_task.
TaskIds == { to_kebab_case(n) : n \in Names }

\* Identifiers in the lists handed to reorder_tasks. The empty identifier is
\* left out: no stored column holds it, so a list with it is a set mismatch.
ReorderIds == TaskIds \ {<<>>}

\* Column names the callers use: a plain column, the default started column
\* and the default completed column.
ColumnNames == {"Backlog", "In Progress", "Done"}

\* constants.py
DEFAULT_COLUMNS == <<"Backlog", "In Progress", "Done", "Archive">>

\* constants.py: the two keys of DEFAULT_INDEX_OPTIONS the core consults.
DEFAULT_INDEX_OPTIONS ==
    [startedColumns |-> {"In Progress"}, completedColumns |-> {"Done"}]

\* A metadata key that is absent from a task header (started, completed).
None == -1

\* Python's None where a column name is returned (find_task_column).
NoColumn == "<None>"

\* An optional argument: NoneArg is Python's None, Given(v) a supplied value.
NoneArg == <<>>

Given(v) == <<v>>

\* progress is kept in tenths: 0.0 is 0 and 1.0 is ProgressOne.
ProgressOne == 10

\* column lists handed to init_board (None: the default columns).
ColumnLists == { NoneArg, Given(<<"Backlog", "Done">>) }

\* progress values handed to update_task, in tenths: below, inside and above
\* the range.
ProgressInputs == { -5, 5, 15 }

\* position arguments of add_column.
Positions == { NoneArg, Given(0) }

\* Tags the callers supply: a valid tag that is no workload tag, a workload
\* tag and a tag outside the vocabulary.
TagInputs == {"bug", "Large", "bogus"}

\* The sequences over S of length at most n.
SeqsUpTo(S, n) == UNION { [1..k -> S] : k \in 0..n }

\* ------------------------------------------------------------------- state
VARIABLES
    indexExists,  \* index.md exists (KanbnBoard.exists)
    options,      \* header of index.md: key -> value
    columns,      \* the sections of index.md: <<[name, tasks]>> in file order
    files,        \* tasks/<id>.md: identifier -> decoded task file
    clock,        \* the wall clock, in seconds (what now_iso() reads)
    ops,          \* number of operations called so far
    limit,        \* number of operations the callers issue in this run
    result,       \* the operation called last and the dict it returned
    running       \* the calls in progress side by side: per caller, the line it
                  \* has reached and the objects it holds (<< >>: one caller)

vars == <<indexExists, options, columns, files, clock, ops, limit, result, running>>

disk == <<indexExists, options, columns, files>>

\* ------------------------------------------------------------ sequences
InSeq(x, s) == \E i \in 1..Len(s) : s[i] = x

\* list.remove(x): drops the first occurrence.
RemoveFirst(s, x) ==
    IF ~InSeq(x, s) THEN s
    ELSE LET k == CHOOSE i \in 1..Len(s) : s[i] = x /\ \A j \in 1..(i - 1) : s[j] # x
         IN SubSeq(s, 1, k - 1) \o SubSeq(s, k + 1, Len(s))

\* list.insert(position, x)
ListInsert(s, position, x) ==
    LET p0 == IF position < 0 THEN position + Len(s) ELSE position
        p  == IF p0 < 0 THEN 0 ELSE IF p0 > Len(s) THEN Len(s) ELSE p0
    IN SubSeq(s, 1, p) \o <<x>> \o SubSeq(s, p + 1, Len(s))

\* ---------------------------------------------------------------- codecs
\* KanbnBoard.load reads a task line back only when it matches
\* r"- \[([^\]]+)\]\(tasks/([^)]+)\.md\)": label and identifier are non-empty
\* and the identifier holds no closing bracket.
IndexLinkMatches(task_id) ==
    /\ Len(task_id) > 0
    /\ \A i \in 1..Len(task_id) : task_id[i] \notin {"]", ")"}

\* The task lines of one column as KanbnBoard.load reads them back from what
\* KanbnBoard.save wrote.
RECURSIVE LoadLinks(_)
LoadLinks(tasks) ==
    IF tasks = <<>> THEN <<>>
    ELSE IF IndexLinkMatches(Head(tasks)) THEN <<Head(tasks)>> \o LoadLinks(Tail(tasks))
    ELSE LoadLinks(Tail(tasks))

\* KanbnTask.load reads the title as stripped[2:].strip() of the "# <name>"
\* line; a line that strips to "#" is no title and leaves the name empty.
LoadTitle(name) == StripChars(name, {" "})

\* A task record as KanbnTask.load reads it back from what KanbnTask.save wrote.
TaskCodec(task) == [task EXCEPT !.name = LoadTitle(@)]

\* ----------------------------------------------------------- KanbnBoard
\* KanbnBoard.load: a fresh board object filled from index.md.
KanbnBoard_load == [options |-> options, columns |-> columns]

\* The first i sections KanbnBoard.save wrote, as KanbnBoard.load reads them
\* back. A column with the empty name is written as the line "## ", which
\* strips to "##" and opens no column: its task lines are read into the
\* column before it, or into the description when there is none.
RECURSIVE LoadColumns(_, _)
LoadColumns(cols, i) ==
    IF i = 0 THEN <<>>
    ELSE LET front == LoadColumns(cols, i - 1)
             links == LoadLinks(cols[i].tasks)
         IN IF cols[i].name # ""
            THEN Append(front, [name |-> cols[i].name, tasks |-> links])
            ELSE IF front = <<>> THEN front
            ELSE [front EXCEPT ![Len(front)].tasks = @ \o links]

\* KanbnBoard.save: index.md as a later load reads it.
KanbnBoard_save(board) ==
    /\ indexExists' = TRUE
    /\ options' = board.options
    /\ columns' = LoadColumns(board.columns, Len(board.columns))

\* {col: [] for col in columns}: a dict keeps the first position of a key.
RECURSIVE DictKeys(_)
DictKeys(names) ==
    IF names = <<>> THEN <<>>
    ELSE LET front == DictKeys(SubSeq(names, 1, Len(names) - 1))
             last == names[Len(names)]
         IN IF InSeq(last, front) THEN front ELSE Append(front, last)

\* KanbnBoard.create, up to its save.
KanbnBoard_create(cols) ==
    LET names == IF cols = NoneArg \/ cols[1] = <<>> THEN DEFAULT_COLUMNS ELSE cols[1]
        keys == DictKeys(names)
    IN [options |-> DEFAULT_INDEX_OPTIONS,
        columns |-> [i \in 1..Len(keys) |-> [name |-> keys[i], tasks |-> <<>>]]]

get_columns(board) == [i \in 1..Len(board.columns) |-> board.columns[i].name]

HasColumn(board, column) == InSeq(column, get_columns(board))

\* Position of a column the board has.
ColumnIndex(board, column) ==
    CHOOSE i \in 1..Len(board.columns) : board.columns[i].name = column

get_tasks_in_column(board, column) ==
    IF HasColumn(board, column) THEN board.columns[ColumnIndex(board, column)].tasks
    ELSE <<>>

\* add_task_to_column without the membership test: the identifier is appended
\* on every call.
add_task_to_column_always_appends(board, task_id, column) ==
    LET b == IF HasColumn(board, column) THEN board
             ELSE [board EXCEPT !.columns = Append(@, [name |-> column, tasks |-> <<>>])]
        i == ColumnIndex(b, column)
    IN [b EXCEPT !.columns[i].tasks = Append(@, task_id)]

add_task_to_column(board, task_id, column) ==
    LET b == IF HasColumn(board, column) THEN board
             ELSE [board EXCEPT !.columns = Append(@, [name |-> column, tasks |-> <<>>])]
        i == ColumnIndex(b, column)
    IN IF InSeq(task_id, b.columns[i].tasks) THEN b
       ELSE [b EXCEPT !.columns[i].tasks = Append(@, task_id)]

remove_task_from_column(board, task_id, column) ==
    IF HasColumn(board, column) /\ InSeq(task_id, get_tasks_in_column(board, column))
    THEN [board EXCEPT !.columns[ColumnIndex(board, column)].tasks = RemoveFirst(@, task_id)]
    ELSE board

find_task_column(board, task_id) ==
    IF \E i \in 1..Len(board.columns) : InSeq(task_id, board.columns[i].tasks)
    THEN LET k == CHOOSE i \in 1..Len(board.columns) :
                      /\ InSeq(task_id, board.columns[i].tasks)
                      /\ \A j \in 1..(i - 1) : ~InSeq(task_id, board.columns[j].tasks)
         IN board.columns[k].name
    ELSE NoColumn

\* KanbnBoard.move_task: the board afterwards, the returned previous column,
\* and whether ValueError was raised.
KanbnBoard_move_task(board, task_id, target_column) ==
    IF ~HasColumn(board, target_column)
    THEN [raised |-> TRUE, board |-> board, previous |-> NoColumn]
    ELSE LET current == find_task_column(board, task_id)
             b == IF current # NoColumn
                  THEN remove_task_from_column(board, task_id, current)
                  ELSE board
         IN [raised |-> FALSE,
             board |-> add_task_to_column(b, task_id, target_column),
             previous |-> current]

\* set(list)
ToSet(s) == { s[i] : i \in 1..Len(s) }

\* KanbnBoard.reorder_tasks with previous_order read after the assignment: the
\* new order is returned as the previous one.
KanbnBoard_reorder_tasks_returns_new(board, column, task_ids) ==
    IF ~HasColumn(board, column)
    THEN [raised |-> TRUE, board |-> board, previous_order |-> <<>>]
    ELSE IF ToSet(get_tasks_in_column(board, column)) # ToSet(task_ids)
    THEN [raised |-> TRUE, board |-> board, previous_order |-> <<>>]
    ELSE [raised |-> FALSE,
          board |-> [board EXCEPT !.columns[ColumnIndex(board, column)].tasks = task_ids],
          previous_order |-> task_ids]

\* KanbnBoard.reorder_tasks: the board afterwards, the returned previous
\* order, and whether ValueError was raised.
KanbnBoard_reorder_tasks(board, column, task_ids) ==
    IF ~HasColumn(board, column)
    THEN [raised |-> TRUE, board |-> board, previous_order |-> <<>>]
    ELSE IF ToSet(get_tasks_in_column(board, column)) # ToSet(task_ids)
    THEN [raised |-> TRUE, board |-> board, previous_order |-> <<>>]
    ELSE [raised |-> FALSE,
          board |-> [board EXCEPT !.columns[ColumnIndex(board, column)].tasks = task_ids],
          previous_order |-> get_tasks_in_column(board, column)]

\* ------------------------------------------------------------- KanbnTask
\* KanbnTask.exists
TaskExists(fs, task_id) == task_id \in DOMAIN fs

\* KanbnTask.save: the file as a later load reads it.
KanbnTask_save(fs, task_id, task) ==
    [i \in DOMAIN fs \cup {task_id} |-> IF i = task_id THEN TaskCodec(task) ELSE fs[i]]

\* file_path.unlink()
RemoveFile(fs, task_id) == [i \in DOMAIN fs \ {task_id} |-> fs[i]]

\* file_path.rename(new_file_path): the file, as it is, under the new name.
RenameFile(fs, task_id, new_task_id) ==
    [i \in (DOMAIN fs \ {task_id}) \cup {new_task_id} |->
        IF i = new_task_id THEN fs[task_id] ELSE fs[i]]

\* constants.py: the tag vocabulary.
WORK_TYPE_TAGS ==
    {"feature", "bug", "chore", "refactor", "testing", "documentation",
     "research", "design", "planning", "spike"}

DOMAIN_TAGS ==
    {"frontend", "backend", "database", "api", "infrastructure", "ci-cd",
     "security", "performance", "accessibility", "ui-ux", "algorithm",
     "devtools", "config", "logging"}

MANAGEMENT_TAGS ==
    {"communication", "training", "review", "devops", "maintenance", "meta", "support"}

PRIORITY_TAGS ==
    {"urgent", "high-priority", "medium-priority", "low-priority", "not-planned",
     "blocked"}

\* The keys of WORKLOAD_TAGS.
WORKLOAD_TAGS == {"Nothing", "Tiny", "Small", "Medium", "Large", "Huge"}

ALL_VALID_TAGS ==
    WORK_TYPE_TAGS \cup DOMAIN_TAGS \cup MANAGEMENT_TAGS \cup PRIORITY_TAGS
        \cup WORKLOAD_TAGS

\* validate_tags: the valid tags in their order, and the invalid ones.
validate_tags(tags) ==
    [valid |-> SelectSeq(tags, LAMBDA tag : tag \in ALL_VALID_TAGS),
     invalid |-> SelectSeq(tags, LAMBDA tag : tag \notin ALL_VALID_TAGS)]

\* ensure_workload_tag without its default: the list is returned as it is.
ensure_workload_tag_no_default(tags) == tags

ensure_workload_tag(tags) ==
    IF \E i \in 1..Len(tags) : tags[i] \in WORKLOAD_TAGS THEN tags
    ELSE Append(tags, "Small")

\* KanbnTask.create: the record it saves. tags, started and completed are
\* optional arguments; a timestamp that is given is a non-empty string.
KanbnTask_create_record(name, tags, started, completed, now) ==
    LET raw_tags == IF tags = NoneArg THEN <<>> ELSE tags[1]
        valid_tags == ensure_workload_tag(validate_tags(raw_tags).valid)
    IN [name |-> name, created |-> now, updated |-> now,
        progress |-> IF completed # NoneArg THEN ProgressOne ELSE 0,
        tags |-> valid_tags,
        started |-> IF started # NoneArg THEN started[1] ELSE None,
        completed |-> IF completed # NoneArg THEN completed[1] ELSE None]

\* KanbnTask.create as add_task calls it (no started, no completed) for a
\* caller that supplies no tags.
KanbnTask_create(name, now) ==
    KanbnTask_create_record(name, NoneArg, NoneArg, NoneArg, now)

\* The clamp without its lower bound: min(1.0, progress).
ClampProgress_no_floor(progress) ==
    IF progress > ProgressOne THEN ProgressOne ELSE progress

\* max(0.0, min(1.0, progress))
ClampProgress(progress) ==
    IF progress < 0 THEN 0 ELSE IF progress > ProgressOne THEN ProgressOne ELSE progress

\* KanbnTask.update without its last assignment: updated is left as loaded.
KanbnTask_update_record_keeps_updated(task, name, tags, progress, started, completed, now) ==
    LET t1 == IF name # NoneArg THEN [task EXCEPT !.name = name[1]] ELSE task
        t2 == IF tags # NoneArg
              THEN [t1 EXCEPT !.tags = ensure_workload_tag(validate_tags(tags[1]).valid)]
              ELSE t1
        t3 == IF progress # NoneArg
              THEN [t2 EXCEPT !.progress = ClampProgress(progress[1])] ELSE t2
        t4 == IF started # NoneArg THEN [t3 EXCEPT !.started = started[1]] ELSE t3
    IN IF completed # NoneArg THEN [t4 EXCEPT !.completed = completed[1]] ELSE t4

\* KanbnTask.update on the record it loaded: the record it saves. Every
\* field is an optional argument.
KanbnTask_update_record(task, name, tags, progress, started, completed, now) ==
    LET t1 == IF name # NoneArg THEN [task EXCEPT !.name = name[1]] ELSE task
        t2 == IF tags # NoneArg
              THEN [t1 EXCEPT !.tags = ensure_workload_tag(validate_tags(tags[1]).valid)]
              ELSE t1
        t3 == IF progress # NoneArg
              THEN [t2 EXCEPT !.progress = ClampProgress(progress[1])] ELSE t2
        t4 == IF started # NoneArg THEN [t3 EXCEPT !.started = started[1]] ELSE t3
        t5 == IF completed # NoneArg THEN [t4 EXCEPT !.completed = completed[1]] ELSE t4
    IN [t5 EXCEPT !.updated = now]

\* KanbnTask.update as update_task calls it (no started, no completed) for a
\* caller that supplies name and progress only.
KanbnTask_update(task, name, progress, now) ==
    KanbnTask_update_record(task, name, NoneArg, progress, NoneArg, NoneArg, now)

\* The lookup falling back on the built-in defaults for a key the header does
\* not have.
OptionGet_merges_defaults(board, key) ==
    IF key \in DOMAIN board.options THEN board.options[key] ELSE DEFAULT_INDEX_OPTIONS[key]

\* The "startedColumns" / "completedColumns" lookups of
\* _apply_column_behavior: board._options.get(key, []).
OptionGet(board, key) == IF key \in DOMAIN board.options THEN board.options[key] ELSE {}

\* _apply_column_behavior with the completed branch guarded like the started
\* branch: completed and progress are set on the first entry only.
apply_column_behavior_first_completion(board, task, column, now) ==
    LET stamp == column \in OptionGet(board, "startedColumns") /\ task.started = None
        t1 == IF stamp THEN [task EXCEPT !.started = now] ELSE task
        done == column \in OptionGet(board, "completedColumns") /\ task.completed = None
        t2 == IF done THEN [t1 EXCEPT !.completed = now, !.progress = ProgressOne] ELSE t1
    IN [task |-> t2, needs_save |-> stamp \/ done]

\* _apply_column_behavior with the started branch unguarded like the
\* completed branch: started is stamped on every entry.
apply_column_behavior_restamps_started(board, task, column, now) ==
    LET stamp == column \in OptionGet(board, "startedColumns")
        t1 == IF stamp THEN [task EXCEPT !.started = now] ELSE task
        done == column \in OptionGet(board, "completedColumns")
        t2 == IF done THEN [t1 EXCEPT !.completed = now, !.progress = ProgressOne] ELSE t1
    IN [task |-> t2, needs_save |-> stamp \/ done]

\* KanbnController._apply_column_behavior on the in-memory task: the task
\* afterwards and needs_save.
apply_column_behavior(board, task, column, now) ==
    LET stamp == column \in OptionGet(board, "startedColumns") /\ task.started = None
        t1 == IF stamp THEN [task EXCEPT !.started = now] ELSE task
        done == column \in OptionGet(board, "completedColumns")
        t2 == IF done THEN [t1 EXCEPT !.completed = now, !.progress = ProgressOne] ELSE t1
    IN [task |-> t2, needs_save |-> stamp \/ done]

\* ------------------------------------------------- the text of a task file
\* A task file is its header (the metadata parse_frontmatter returns) and its
\* body, the lines of body.split("\n"); a line, like a name, is a sequence of
\* characters, and a text of several lines is the sequence of its lines, the
\* empty text being the empty sequence.

\* str.startswith(prefix)
StartsWith(text, prefix) ==
    Len(text) >= Len(prefix) /\ SubSeq(text, 1, Len(prefix)) = prefix

\* text[n:]
From(text, n) == SubSeq(text, n + 1, Len(text))

\* str.strip() on one line.
Strip(line) == StripChars(line, {" "})

\* str.lstrip() on one line.
RECURSIVE LStrip(_)
LStrip(line) ==
    IF line # <<>> /\ Head(line) = " " THEN LStrip(Tail(line)) ELSE line

\* str.rstrip() on one line.
RECURSIVE RStrip(_)
RStrip(line) ==
    IF line # <<>> /\ line[Len(line)] = " "
    THEN RStrip(SubSeq(line, 1, Len(line) - 1)) ELSE line

\* The lines of a text without the blank lines it starts with.
RECURSIVE DropBlankFront(_)
DropBlankFront(lines) ==
    IF lines # <<>> /\ Strip(Head(lines)) = <<>> THEN DropBlankFront(Tail(lines))
    ELSE lines

\* The lines of a text without the blank lines it ends with.
RECURSIVE DropBlankBack(_)
DropBlankBack(lines) ==
    IF lines # <<>> /\ Strip(lines[Len(lines)]) = <<>>
    THEN DropBlankBack(SubSeq(lines, 1, Len(lines) - 1)) ELSE lines

\* "\n".join(description_lines).strip(): the white space and the line breaks
\* at the two ends of the text are dropped.
StripText(lines) ==
    LET kept == DropBlankBack(DropBlankFront(lines))
        n == Len(kept)
    IN IF n = 0 THEN <<>>
       ELSE IF n = 1 THEN <<Strip(kept[1])>>
       ELSE <<LStrip(kept[1])>> \o SubSeq(kept, 2, n - 1) \o <<RStrip(kept[n])>>

\* "# " and "## "
Level1 == <<"#", " ">>

Level2 == <<"#", "#", " ">>

\* "- [", which starts a sub-task line and a relation line.
ItemStart == <<"-", " ", "[">>

\* "- author:", which starts a comment.
AuthorStart == <<"-", " ", "a", "u", "t", "h", "o", "r", ":">>

\* The headings KanbnTask.save writes.
SubtasksHeading == Level2 \o <<"S", "u", "b", "-", "t", "a", "s", "k", "s">>

RelationsHeading == Level2 \o <<"R", "e", "l", "a", "t", "i", "o", "n", "s">>

CommentsHeading == Level2 \o <<"C", "o", "m", "m", "e", "n", "t", "s">>

\* The section a "## " line opens: its name is compared in lower case with
\* "sub-tasks", "relations" and "comments".
SectionOf(stripped) ==
    LET section_name == LowerText(Strip(From(stripped, 3)))
    IN IF section_name = <<"s", "u", "b", "-", "t", "a", "s", "k", "s">> THEN "subtasks"
       ELSE IF section_name = <<"r", "e", "l", "a", "t", "i", "o", "n", "s">>
       THEN "relations"
       ELSE IF section_name = <<"c", "o", "m", "m", "e", "n", "t", "s">> THEN "comments"
       ELSE "description"

\* re.sub(r"^- \[[xX ]\]\s*", "", stripped)
SubtaskText(stripped) ==
    IF /\ Len(stripped) >= 5
       /\ SubSeq(stripped, 1, 3) = ItemStart
       /\ stripped[4] \in {"x", "X", " "}
       /\ stripped[5] = "]"
    THEN LStrip(From(stripped, 5))
    ELSE stripped

\* The loop of KanbnTask.load over the lines of the body, from line i on: t
\* holds the name, the current section and the lists read so far.
RECURSIVE LoadLines(_, _, _)
LoadLines(lines, i, t) ==
    IF i > Len(lines) THEN t
    ELSE LET line == lines[i]
             stripped == Strip(line)
         IN IF StartsWith(stripped, Level1) /\ ~StartsWith(stripped, Level2)
            THEN LoadLines(lines, i + 1,
                           [t EXCEPT !.name = Strip(From(stripped, 2)),
                                     !.current_section = "description"])
            ELSE IF StartsWith(stripped, Level2)
            THEN LoadLines(lines, i + 1,
                           [t EXCEPT !.current_section = SectionOf(stripped)])
            ELSE IF t.current_section = "description"
            THEN LoadLines(lines, i + 1,
                           [t EXCEPT !.description_lines = Append(@, line)])
            ELSE IF t.current_section = "subtasks" /\ StartsWith(stripped, ItemStart)
            THEN LoadLines(lines, i + 1,
                           [t EXCEPT !.subtasks =
                               Append(@, [text |-> SubtaskText(stripped),
                                          completed |->
                                              \/ StartsWith(stripped, ItemStart \o <<"x", "]">>)
                                              \/ StartsWith(stripped, ItemStart \o <<"X", "]">>)])])
            ELSE IF t.current_section = "relations" /\ StartsWith(stripped, ItemStart)
            THEN LoadLines(lines, i + 1, [t EXCEPT !.relations = Append(@, stripped)])
            ELSE IF t.current_section = "comments" /\ StartsWith(stripped, AuthorStart)
            THEN LoadLines(lines, i + 1, [t EXCEPT !.comments = Append(@, stripped)])
            ELSE LoadLines(lines, i + 1, t)

\* KanbnTask.load on a fresh task object: the task it holds afterwards. A
\* comment is kept as the "raw" text of its "- author:" line.
KanbnTask_load(file) ==
    LET read == LoadLines(file.body, 1,
                          [name |-> <<>>, current_section |-> "none",
                           description_lines |-> <<>>, subtasks |-> <<>>,
                           relations |-> <<>>, comments |-> <<>>])
    IN [name |-> read.name,
        created |-> file.metadata.created,
        updated |-> file.metadata.updated,
        progress |-> file.metadata.progress,
        tags |-> file.metadata.tags,
        started |-> file.metadata.started,
        completed |-> file.metadata.completed,
        description |-> StripText(read.description_lines),
        subtasks |-> read.subtasks,
        relations |-> read.relations,
        comments |-> read.comments]

\* KanbnTask.save: the file it writes, the header and the lines after it. The
\* description is written when the text is not empty; every comment a task
\* holds was read by load and is written as its raw text.
KanbnTask_write(task) ==
    [metadata |-> [created |-> task.created, updated |-> task.updated,
                   progress |-> task.progress, tags |-> task.tags,
                   started |-> task.started, completed |-> task.completed],
     body |-> <<Level1 \o task.name, <<>>>>
              \o (IF task.description # <<>> /\ task.description # << <<>> >>
                  THEN task.description \o << <<>> >>
                  ELSE <<>>)
              \o (IF task.subtasks # <<>>
                  THEN <<SubtasksHeading, <<>>>>
                       \o [i \in 1..Len(task.subtasks) |->
                              ItemStart
                                  \o <<IF task.subtasks[i].completed THEN "x" ELSE " ", "]", " ">>
                                  \o task.subtasks[i].text]
                       \o << <<>> >>
                  ELSE <<>>)
              \o (IF task.relations # <<>>
                  THEN <<RelationsHeading, <<>>>> \o task.relations \o << <<>> >>
                  ELSE <<>>)
              \o (IF task.comments # <<>>
                  THEN <<CommentsHeading, <<>>>> \o task.comments \o << <<>> >>
                  ELSE <<>>)]

\* ------------------------------------------------------- KanbnController
\* An operation is called: time stands still while it runs (now_iso() has a
\* resolution of one second, so all its readings are the same instant).
Called ==
    /\ ops < limit
    /\ ops' = ops + 1
    /\ UNCHANGED <<clock, limit, running>>

\* now_iso(): the wall clock, to the second.
now_iso == clock

\* An operation returns {"success": False, "error": ...} having written
\* nothing.
Fails(op, error) ==
    /\ result' = [op |-> op, success |-> FALSE, error |-> error]
    /\ UNCHANGED disk

\* The wall clock advances between two operations.
Tick ==
    /\ clock < MaxTime
    /\ clock' = clock + 1
    /\ UNCHANGED <<disk, ops, limit, result, running>>

init_board(cols) ==
    LET op == "init_board"
        board == KanbnBoard_create(cols)
    IN /\ Called
       /\ IF indexExists THEN Fails(op, "Board already exists")
          ELSE /\ KanbnBoard_save(board)
               /\ UNCHANGED files
               /\ result' = [op |-> op, success |-> TRUE, columns |-> get_columns(board)]

\* add_task without the task.exists test, the file being written over.
add_task_overwrites(name, column) ==
    LET now == now_iso
        op == "add_task"
        board == KanbnBoard_load
        task_id == KebabOf[name]
        created == KanbnTask_create(name, now)
        fs1 == KanbnTask_save(files, task_id, created)
        board1 == add_task_to_column(board, task_id, column)
        entered == apply_column_behavior(board1, created, column, now)
        fs2 == IF entered.needs_save THEN KanbnTask_save(fs1, task_id, entered.task) ELSE fs1
    IN /\ Called
       /\ IF ~indexExists THEN Fails(op, "Board not found")
          ELSE IF ~HasColumn(board, column) THEN Fails(op, "Column not found")
          ELSE /\ files' = fs2
               /\ KanbnBoard_save(board1)
               /\ result' = [op |-> op, success |-> TRUE, task_id |-> task_id, column |-> column]

add_task(name, column) ==
    LET now == now_iso
        op == "add_task"
        board == KanbnBoard_load
        task_id == KebabOf[name]
        created == KanbnTask_create(name, now)
        fs1 == KanbnTask_save(files, task_id, created)
        board1 == add_task_to_column(board, task_id, column)
        entered == apply_column_behavior(board1, created, column, now)
        fs2 == IF entered.needs_save THEN KanbnTask_save(fs1, task_id, entered.task) ELSE fs1
    IN /\ Called
       /\ IF ~indexExists THEN Fails(op, "Board not found")
          ELSE IF ~HasColumn(board, column) THEN Fails(op, "Column not found")
          ELSE IF TaskExists(files, task_id) THEN Fails(op, "Task already exists")
          ELSE /\ files' = fs2
               /\ KanbnBoard_save(board1)
               /\ result' = [op |-> op, success |-> TRUE, task_id |-> task_id, column |-> column]

\* add_task stopped (the process killed) after task.create has written the
\* task file and before board.save: the file is as create wrote it, or as the
\* save of _apply_column_behavior wrote it again, index.md is as it was, and
\* nothing is returned.
add_task_interrupted(name, column) ==
    LET now == now_iso
        board == KanbnBoard_load
        task_id == KebabOf[name]
        created == KanbnTask_create(name, now)
        entered == apply_column_behavior(add_task_to_column(board, task_id, column),
                                         created, column, now)
    IN /\ Called
       /\ indexExists
       /\ HasColumn(board, column)
       /\ ~TaskExists(files, task_id)
       /\ \E written \in {created, entered.task} :
             files' = KanbnTask_save(files, task_id, written)
       /\ UNCHANGED <<indexExists, options, columns>>
       /\ result' = [op |-> "add_task_interrupted", success |-> FALSE,
                     error |-> "interrupted", task_id |-> task_id, column |-> column]

\* move_task without the validation of the target column: the task is taken
\* out of its column and add_task_to_column makes the missing column.
move_task_unchecked(task_id, target_column) ==
    LET now == now_iso
        op == "move_task"
        board == KanbnBoard_load
        current == find_task_column(board, task_id)
        board1 == add_task_to_column(
                      IF current # NoColumn
                      THEN remove_task_from_column(board, task_id, current) ELSE board,
                      task_id, target_column)
        loaded == [files[task_id] EXCEPT !.updated = now]
        entered == apply_column_behavior(board1, loaded, target_column, now)
    IN /\ Called
       /\ IF ~indexExists THEN Fails(op, "Board not found")
          ELSE /\ files' = IF TaskExists(files, task_id)
                           THEN KanbnTask_save(files, task_id, entered.task)
                           ELSE files
               /\ KanbnBoard_save(board1)
               /\ result' = [op |-> op, success |-> TRUE, task_id |-> task_id,
                             from_column |-> current,
                             to_column |-> target_column]

move_task(task_id, target_column) ==
    LET now == now_iso
        op == "move_task"
        board == KanbnBoard_load
        moved == KanbnBoard_move_task(board, task_id, target_column)
        loaded == [files[task_id] EXCEPT !.updated = now]
        entered == apply_column_behavior(moved.board, loaded, target_column, now)
    IN /\ Called
       /\ IF ~indexExists THEN Fails(op, "Board not found")
          ELSE IF ~HasColumn(board, target_column) THEN Fails(op, "Column not found")
          ELSE IF moved.raised THEN Fails(op, "Column does not exist")
          ELSE /\ files' = IF TaskExists(files, task_id)
                           THEN KanbnTask_save(files, task_id, entered.task)
                           ELSE files
               /\ KanbnBoard_save(moved.board)
               /\ result' = [op |-> op, success |-> TRUE, task_id |-> task_id,
                             from_column |-> moved.previous,
                             to_column |-> target_column]

\* update_task without the test for a task file under the new identifier: the
\* rename goes ahead and replaces that file.
update_task_renames_over(task_id, name, progress) ==
    LET now == now_iso
        op == "update_task"
        board == KanbnBoard_load
        new_task_id == IF name # NoneArg THEN KebabOf[name[1]] ELSE task_id
        fs1 == KanbnTask_save(files, task_id,
                              KanbnTask_update(files[task_id], name, progress, now))
        fs2 == RenameFile(fs1, task_id, new_task_id)
        column == find_task_column(board, task_id)
        board1 == add_task_to_column(remove_task_from_column(board, task_id, column),
                                     new_task_id, column)
    IN /\ Called
       /\ IF ~indexExists THEN Fails(op, "Board not found")
          ELSE IF ~TaskExists(files, task_id) THEN Fails(op, "Task not found")
          ELSE IF new_task_id # task_id
          THEN /\ files' = fs2
               /\ IF column # NoColumn THEN KanbnBoard_save(board1)
                  ELSE UNCHANGED <<indexExists, options, columns>>
               /\ result' = [op |-> op, success |-> TRUE, task_id |-> new_task_id,
                             previous_task_id |-> task_id, renamed |-> TRUE]
          ELSE /\ files' = fs1
               /\ UNCHANGED <<indexExists, options, columns>>
               /\ result' = [op |-> op, success |-> TRUE, task_id |-> task_id, renamed |-> FALSE]

update_task(task_id, name, progress) ==
    LET now == now_iso
        op == "update_task"
        board == KanbnBoard_load
        new_task_id == IF name # NoneArg THEN KebabOf[name[1]] ELSE task_id
        fs1 == KanbnTask_save(files, task_id,
                              KanbnTask_update(files[task_id], name, progress, now))
        fs2 == RenameFile(fs1, task_id, new_task_id)
        column == find_task_column(board, task_id)
        board1 == add_task_to_column(remove_task_from_column(board, task_id, column),
                                     new_task_id, column)
    IN /\ Called
       /\ IF ~indexExists THEN Fails(op, "Board not found")
          ELSE IF ~TaskExists(files, task_id) THEN Fails(op, "Task not found")
          ELSE IF new_task_id # task_id /\ TaskExists(files, new_task_id)
          THEN Fails(op, "Cannot rename: task already exists")
          ELSE IF new_task_id # task_id
          THEN /\ files' = fs2
               /\ IF column # NoColumn THEN KanbnBoard_save(board1)
                  ELSE UNCHANGED <<indexExists, options, columns>>
               /\ result' = [op |-> op, success |-> TRUE, task_id |-> new_task_id,
                             previous_task_id |-> task_id, renamed |-> TRUE]
          ELSE /\ files' = fs1
               /\ UNCHANGED <<indexExists, options, columns>>
               /\ result' = [op |-> op, success |-> TRUE, task_id |-> task_id, renamed |-> FALSE]

\* update_task stopped (the process killed) in its renaming branch after
\* file_path.rename and before board.save: the task file is updated and moved,
\* index.md is as it was, and nothing is returned.
update_task_interrupted(task_id, name, progress) ==
    LET now == now_iso
        new_task_id == IF name # NoneArg THEN KebabOf[name[1]] ELSE task_id
        fs1 == KanbnTask_save(files, task_id,
                              KanbnTask_update(files[task_id], name, progress, now))
        fs2 == RenameFile(fs1, task_id, new_task_id)
    IN /\ Called
       /\ indexExists
       /\ TaskExists(files, task_id)
       /\ new_task_id # task_id
       /\ ~TaskExists(files, new_task_id)
       /\ files' = fs2
       /\ UNCHANGED <<indexExists, options, columns>>
       /\ result' = [op |-> "update_task_interrupted", success |-> FALSE,
                     error |-> "interrupted", task_id |-> new_task_id,
                     previous_task_id |-> task_id]

\* KanbnController._get_all_tasks: the tasks of columns i.. of the board, in
\* index order, an identifier without a task file being skipped.
RECURSIVE get_all_tasks(_, _, _)
get_all_tasks(board, fs, i) ==
    IF i > Len(board.columns) THEN <<>>
    ELSE LET column == board.columns[i]
             listed == SelectSeq(column.tasks, LAMBDA tid : TaskExists(fs, tid))
         IN [k \in 1..Len(listed) |->
                [column |-> column.name, id |-> listed[k], task |-> fs[listed[k]]]]
            \o get_all_tasks(board, fs, i + 1)

\* KanbnController.get_task on the stored state: the dict it returns for one
\* identifier, or for all tasks when task_id is None.
get_task_returns(task_id) ==
    LET op == "get_task"
        board == KanbnBoard_load
        all == get_all_tasks(board, files, 1)
    IN IF ~indexExists THEN [op |-> op, success |-> FALSE, error |-> "Board not found"]
       ELSE IF task_id = NoneArg
       THEN [op |-> op, success |-> TRUE, total_count |-> Len(all), tasks |-> all]
       ELSE IF ~TaskExists(files, task_id[1])
       THEN [op |-> op, success |-> FALSE, error |-> "Task not found"]
       ELSE [op |-> op, success |-> TRUE, id |-> task_id[1],
             column |-> find_task_column(board, task_id[1]),
             task |-> files[task_id[1]]]

get_task(task_id) ==
    /\ Called
    /\ result' = get_task_returns(task_id)
    /\ UNCHANGED disk

delete_task(task_id) ==
    LET op == "delete_task"
        board == KanbnBoard_load
        column == find_task_column(board, task_id)
    IN /\ Called
       /\ IF ~indexExists THEN Fails(op, "Board not found")
          ELSE /\ IF column # NoColumn
                  THEN KanbnBoard_save(remove_task_from_column(board, task_id, column))
                  ELSE UNCHANGED <<indexExists, options, columns>>
               /\ files' = RemoveFile(files, task_id)
               /\ result' = [op |-> op, success |-> TRUE, task_id |-> task_id, removed_from |-> column]

add_column(column_name, position) ==
    LET op == "add_column"
        board == KanbnBoard_load
        entry == [name |-> column_name, tasks |-> <<>>]
        board1 == [board EXCEPT !.columns =
                      IF position # NoneArg THEN ListInsert(@, position[1], entry)
                      ELSE Append(@, entry)]
    IN /\ Called
       /\ IF ~indexExists THEN Fails(op, "Board not found")
          ELSE IF HasColumn(board, column_name) THEN Fails(op, "Column already exists")
          ELSE /\ KanbnBoard_save(board1)
               /\ UNCHANGED files
               /\ result' = [op |-> op, success |-> TRUE, column |-> column_name,
                             columns |-> get_columns(board1)]

\* reorder_tasks with the new order assigned and saved before the validation
\* raises: a rejected list is stored all the same.
reorder_tasks_stores_rejected(column, task_ids) ==
    LET op == "reorder_tasks"
        board == KanbnBoard_load
        reordered == KanbnBoard_reorder_tasks(board, column, task_ids)
        assigned == [board EXCEPT !.columns[ColumnIndex(board, column)].tasks = task_ids]
    IN /\ Called
       /\ IF ~indexExists THEN Fails(op, "Board not found")
          ELSE IF ~HasColumn(board, column) THEN Fails(op, "Column not found")
          ELSE IF reordered.raised
          THEN /\ KanbnBoard_save(assigned)
               /\ UNCHANGED files
               /\ result' = [op |-> op, success |-> FALSE,
                             error |-> "Missing tasks / Unknown tasks"]
          ELSE /\ KanbnBoard_save(reordered.board)
               /\ UNCHANGED files
               /\ result' = [op |-> op, success |-> TRUE, column |-> column,
                             previous_order |-> reordered.previous_order,
                             new_order |-> task_ids]

reorder_tasks(column, task_ids) ==
    LET op == "reorder_tasks"
        board == KanbnBoard_load
        reordered == KanbnBoard_reorder_tasks(board, column, task_ids)
    IN /\ Called
       /\ IF ~indexExists THEN Fails(op, "Board not found")
          ELSE IF ~HasColumn(board, column) THEN Fails(op, "Column not found")
          ELSE IF reordered.raised THEN Fails(op, "Missing tasks / Unknown tasks")
          ELSE /\ KanbnBoard_save(reordered.board)
               /\ UNCHANGED files
               /\ result' = [op |-> op, success |-> TRUE, column |-> column,
                             previous_order |-> reordered.previous_order,
                             new_order |-> task_ids]

\* ------------------------------------------------------- batch_add_tasks
\* add_task on the stored state st: the stored state afterwards and the dict
\* returned.
add_task_outcome(st, name, column, now) ==
    LET board == [options |-> st.options, columns |-> st.columns]
        task_id == to_kebab_case(name)
        created == KanbnTask_create(name, now)
        board1 == add_task_to_column(board, task_id, column)
        entered == apply_column_behavior(board1, created, column, now)
    IN IF ~st.indexExists
       THEN [st |-> st, returned |-> [success |-> FALSE, error |-> "Board not found"]]
       ELSE IF ~HasColumn(board, column)
       THEN [st |-> st, returned |-> [success |-> FALSE, error |-> "Column not found"]]
       ELSE IF TaskExists(st.files, task_id)
       THEN [st |-> st, returned |-> [success |-> FALSE, error |-> "Task already exists"]]
       ELSE [st |-> [indexExists |-> TRUE, options |-> board1.options,
                     columns |-> LoadColumns(board1.columns, Len(board1.columns)),
                     files |-> KanbnTask_save(st.files, task_id, entered.task)],
             returned |-> [success |-> TRUE, task_id |-> task_id, column |-> column]]

\* The loop left at the first specification that fails (a break in place of
\* the continue).
RECURSIVE BatchLoop_stops_at_failure(_, _, _, _, _)
BatchLoop_stops_at_failure(tasks, i, default_column, st, results) ==
    IF i > Len(tasks) THEN [st |-> st, results |-> results]
    ELSE LET task_spec == tasks[i]
             added == add_task_outcome(st, task_spec.name[1],
                                       IF task_spec.column # NoneArg
                                       THEN task_spec.column[1] ELSE default_column,
                                       now_iso)
         IN IF task_spec.name = NoneArg \/ task_spec.name[1] = << >>
            THEN [st |-> st,
                  results |-> [results EXCEPT !.failed =
                                  Append(@, [error |-> "Missing name", spec |-> task_spec])]]
            ELSE IF added.returned.success
            THEN BatchLoop_stops_at_failure(
                     tasks, i + 1, default_column, added.st,
                     [results EXCEPT !.created = Append(@, added.returned)])
            ELSE [st |-> added.st,
                  results |-> [results EXCEPT !.failed =
                                  Append(@, added.returned @@ [name |-> task_spec.name[1]])]]

\* The loop of batch_add_tasks from specification i on: the stored state and
\* the lists "created" and "failed" when it ends. A specification is a dict
\* that has or lacks "name" and "column".
RECURSIVE BatchLoop(_, _, _, _, _)
BatchLoop(tasks, i, default_column, st, results) ==
    IF i > Len(tasks) THEN [st |-> st, results |-> results]
    ELSE LET task_spec == tasks[i]
             added == add_task_outcome(st, task_spec.name[1],
                                       IF task_spec.column # NoneArg
                                       THEN task_spec.column[1] ELSE default_column,
                                       now_iso)
         IN IF task_spec.name = NoneArg \/ task_spec.name[1] = << >>
            THEN BatchLoop(tasks, i + 1, default_column, st,
                           [results EXCEPT !.failed =
                               Append(@, [error |-> "Missing name", spec |-> task_spec])])
            ELSE IF added.returned.success
            THEN BatchLoop(tasks, i + 1, default_column, added.st,
                           [results EXCEPT !.created = Append(@, added.returned)])
            ELSE BatchLoop(tasks, i + 1, default_column, added.st,
                           [results EXCEPT !.failed =
                               Append(@, added.returned @@ [name |-> task_spec.name[1]])])

\* batch_add_tasks; result holds the dict returned and, with it, the two
\* arguments of the call.
batch_add_tasks(tasks, default_column) ==
    LET looped == BatchLoop(tasks, 1, default_column,
                            [indexExists |-> indexExists, options |-> options,
                             columns |-> columns, files |-> files],
                            [created |-> << >>, failed |-> << >>])
    IN /\ Called
       /\ indexExists' = looped.st.indexExists
       /\ options' = looped.st.options
       /\ columns' = looped.st.columns
       /\ files' = looped.st.files
       /\ result' = [op |-> "batch_add_tasks",
                     success |-> Len(looped.results.failed) = 0,
                     created |-> looped.results.created,
                     failed |-> looped.results.failed,
                     created_count |-> Len(looped.results.created),
                     failed_count |-> Len(looped.results.failed),
                     tasks |-> tasks, default_column |-> default_column]

\* ------------------------------------------- KanbnBoard, called directly
\* A caller holds one KanbnBoard object and calls its methods: in these
\* actions options and columns are the object's _options and _columns, and
\* result is the method called last with what it returned.
BoardObject == [options |-> options, columns |-> columns]

\* The object's fields after a method call; nothing is written to disk.
BoardBecomes(board) ==
    /\ columns' = board.columns
    /\ options' = board.options
    /\ UNCHANGED <<indexExists, files>>

Board_add_task_to_column(task_id, column) ==
    /\ Called
    /\ BoardBecomes(add_task_to_column(BoardObject, task_id, column))
    /\ result' = [op |-> "KanbnBoard.add_task_to_column", success |-> TRUE,
                  task_id |-> task_id, column |-> column,
                  present |-> InSeq(task_id, get_tasks_in_column(BoardObject, column))]

Board_remove_task_from_column(task_id, column) ==
    /\ Called
    /\ BoardBecomes(remove_task_from_column(BoardObject, task_id, column))
    /\ result' = [op |-> "KanbnBoard.remove_task_from_column", success |-> TRUE,
                  removed |-> InSeq(task_id, get_tasks_in_column(BoardObject, column))]

Board_move_task(task_id, target_column) ==
    LET moved == KanbnBoard_move_task(BoardObject, task_id, target_column)
    IN /\ Called
       /\ BoardBecomes(moved.board)
       /\ result' = IF moved.raised
                    THEN [op |-> "KanbnBoard.move_task", success |-> FALSE,
                          error |-> "Column does not exist"]
                    ELSE [op |-> "KanbnBoard.move_task", success |-> TRUE,
                          previous |-> moved.previous]

Board_reorder_tasks(column, task_ids) ==
    LET reordered == KanbnBoard_reorder_tasks(BoardObject, column, task_ids)
    IN /\ Called
       /\ BoardBecomes(reordered.board)
       /\ result' = IF reordered.raised
                    THEN [op |-> "KanbnBoard.reorder_tasks", success |-> FALSE,
                          error |-> "Missing tasks / Unknown tasks"]
                    ELSE [op |-> "KanbnBoard.reorder_tasks", success |-> TRUE,
                          previous_order |-> reordered.previous_order]

\* -------------------------------------------- KanbnTask, called directly
\* A caller holds the KanbnTask object of one identifier and calls its
\* methods; result is the method called last, whether it raised, and the tags
\* argument it was given.
TaskId == to_kebab_case(<<"a">>)

\* A tags list that names two estimates of the effort.
TwoWorkloadTags == <<"Large", "Tiny">>

\* tags arguments: None or a list.
TagArgs ==
    {NoneArg} \cup { Given(t) : t \in SeqsUpTo(TagInputs, MaxTags) \cup {TwoWorkloadTags} }

\* started / completed arguments: None or a timestamp, the date the caller
\* writes being that of time 0.
TimeArgs == {NoneArg, Given(0)}

Task_create(tags, started, completed) ==
    LET op == "KanbnTask.create"
    IN /\ Called
       /\ IF TaskExists(files, TaskId) THEN Fails(op, "Task already exists")
          ELSE /\ files' = KanbnTask_save(files, TaskId,
                                          KanbnTask_create_record(<<"a">>, tags, started,
                                                                  completed, now_iso))
               /\ UNCHANGED <<indexExists, options, columns>>
               /\ result' = [op |-> op, success |-> TRUE, tags |-> tags]

Task_update(tags, progress, started, completed) ==
    LET op == "KanbnTask.update"
    IN /\ Called
       /\ IF ~TaskExists(files, TaskId) THEN Fails(op, "Task not found")
          ELSE /\ files' = KanbnTask_save(files, TaskId,
                                          KanbnTask_update_record(files[TaskId], NoneArg,
                                                                  tags, progress, started,
                                                                  completed, now_iso))
               /\ UNCHANGED <<indexExists, options, columns>>
               /\ result' = [op |-> op, success |-> TRUE, tags |-> tags]

Task_delete ==
    /\ Called
    /\ files' = RemoveFile(files, TaskId)
    /\ UNCHANGED <<indexExists, options, columns>>
    /\ result' = [op |-> "KanbnTask.delete", success |-> TRUE]

\* _apply_column_behavior on the loaded task as the task enters a column of
\* the board.
Task_enters(column) ==
    LET entered == apply_column_behavior(KanbnBoard_load, files[TaskId], column, now_iso)
    IN /\ Called
       /\ TaskExists(files, TaskId)
       /\ files' = IF entered.needs_save
                   THEN KanbnTask_save(files, TaskId, entered.task) ELSE files
       /\ UNCHANGED <<indexExists, options, columns>>
       /\ result' = [op |-> "apply_column_behavior", success |-> TRUE, column |-> column]

\* ------------------------------------------ the task file, read and written
\* A caller holds the KanbnTask object of one identifier; the file may have
\* been written by the core, by the kanbn extension or by hand.

\* The lines the bodies that the core did not write are made of: a title; a
\* level-2 heading KanbnTask.load does not know and a line of text; the
\* Comments heading with the author line and the indented date line of a
\* comment; the Relations heading and a relation; the Sub-tasks heading and a
\* sub-task that is done.
FileLines ==
    { Level1 \o <<"T">>,
      Level2 \o <<"N">>, <<"n">>,
      CommentsHeading, AuthorStart \o <<" ", "A">>, <<" ", " ", "d">>,
      RelationsHeading, ItemStart \o <<"b", "]">>,
      SubtasksHeading, ItemStart \o <<"x", "]", " ", "s">> }

\* KanbnTask.create with a description and no sub-tasks.
File_create(name, description) ==
    LET op == "KanbnTask.create"
        task == KanbnTask_create_record(name, NoneArg, NoneArg, NoneArg, now_iso)
                    @@ [description |-> description, subtasks |-> <<>>,
                        relations |-> <<>>, comments |-> <<>>]
    IN /\ Called
       /\ IF TaskExists(files, TaskId) THEN Fails(op, "Task already exists")
          ELSE /\ files' = (TaskId :> KanbnTask_write(task))
               /\ UNCHANGED <<indexExists, options, columns>>
               /\ result' = [op |-> op, success |-> TRUE]

\* KanbnTask.update as update_task calls it: load, the fields supplied,
\* updated, save.
File_update(name, description, tags, progress, subtasks) ==
    LET op == "KanbnTask.update"
        loaded == KanbnTask_load(files[TaskId])
        t1 == KanbnTask_update_record(loaded, name, tags, progress, NoneArg, NoneArg,
                                      now_iso)
        t2 == IF description # NoneArg THEN [t1 EXCEPT !.description = description[1]]
              ELSE t1
        t3 == IF subtasks # NoneArg THEN [t2 EXCEPT !.subtasks = subtasks[1]] ELSE t2
    IN /\ Called
       /\ IF ~TaskExists(files, TaskId) THEN Fails(op, "Task not found")
          ELSE /\ files' = (TaskId :> KanbnTask_write(t3))
               /\ UNCHANGED <<indexExists, options, columns>>
               /\ result' = [op |-> op, success |-> TRUE, name |-> name,
                             description |-> description, tags |-> tags,
                             progress |-> progress, subtasks |-> subtasks]

\* The task file in move_task: load, updated, the column behaviour, save.
File_move(column) ==
    LET loaded == KanbnTask_load(files[TaskId])
        stamped == [loaded EXCEPT !.updated = now_iso]
        entered == apply_column_behavior(KanbnBoard_load, stamped, column, now_iso)
    IN /\ Called
       /\ TaskExists(files, TaskId)
       /\ files' = (TaskId :> KanbnTask_write(entered.task))
       /\ UNCHANGED <<indexExists, options, columns>>
       /\ result' = [op |-> "move_task", success |-> TRUE, column |-> column]

\* The task file in get_task: load and to_dict.
File_get ==
    /\ Called
    /\ TaskExists(files, TaskId)
    /\ UNCHANGED disk
    /\ result' = [op |-> "get_task", success |-> TRUE]
                    @@ KanbnTask_load(files[TaskId])

\* ------------------------------- the controller, on the text of the files
\* Callers that give tasks a description: files holds the text of each task
\* file, and the operations read it with KanbnTask.load and write it with
\* KanbnTask.save.
DescribedNames == { <<"a">>, <<"b">> }

\* description arguments: the empty text, one line, and two lines of which the
\* first starts with "# " or with "## ".
Descriptions ==
    { <<>>, << <<"n">> >>, <<Level1 \o <<"b">>, <<"n">>>>, <<Level2 \o <<"N">>, <<"n">>>> }

Text_add_task(name, description, column) ==
    LET now == now_iso
        op == "add_task"
        board == KanbnBoard_load
        task_id == to_kebab_case(name)
        created == KanbnTask_create_record(name, NoneArg, NoneArg, NoneArg, now)
                       @@ [description |-> description, subtasks |-> <<>>,
                           relations |-> <<>>, comments |-> <<>>]
        board1 == add_task_to_column(board, task_id, column)
        entered == apply_column_behavior(board1, created, column, now)
    IN /\ Called
       /\ IF ~indexExists THEN Fails(op, "Board not found")
          ELSE IF ~HasColumn(board, column) THEN Fails(op, "Column not found")
          ELSE IF TaskExists(files, task_id) THEN Fails(op, "Task already exists")
          ELSE /\ files' = (task_id :> KanbnTask_write(entered.task)) @@ files
               /\ KanbnBoard_save(board1)
               /\ result' = [op |-> op, success |-> TRUE, task_id |-> task_id,
                             column |-> column, name |-> name,
                             description |-> description]

Text_move_task(task_id, target_column) ==
    LET now == now_iso
        op == "move_task"
        board == KanbnBoard_load
        moved == KanbnBoard_move_task(board, task_id, target_column)
        loaded == [KanbnTask_load(files[task_id]) EXCEPT !.updated = now]
        entered == apply_column_behavior(moved.board, loaded, target_column, now)
    IN /\ Called
       /\ IF ~indexExists THEN Fails(op, "Board not found")
          ELSE IF ~HasColumn(board, target_column) THEN Fails(op, "Column not found")
          ELSE /\ files' = IF TaskExists(files, task_id)
                           THEN (task_id :> KanbnTask_write(entered.task)) @@ files
                           ELSE files
               /\ KanbnBoard_save(moved.board)
               /\ result' = [op |-> op, success |-> TRUE, task_id |-> task_id,
                             from_column |-> moved.previous,
                             to_column |-> target_column]

Text_update_task(task_id, name, description) ==
    LET now == now_iso
        op == "update_task"
        board == KanbnBoard_load
        new_task_id == IF name # NoneArg THEN to_kebab_case(name[1]) ELSE task_id
        t1 == KanbnTask_update_record(KanbnTask_load(files[task_id]), name, NoneArg,
                                      NoneArg, NoneArg, NoneArg, now)
        t2 == IF description # NoneArg THEN [t1 EXCEPT !.description = description[1]]
              ELSE t1
        fs1 == (task_id :> KanbnTask_write(t2)) @@ files
        column == find_task_column(board, task_id)
        board1 == add_task_to_column(remove_task_from_column(board, task_id, column),
                                     new_task_id, column)
    IN /\ Called
       /\ IF ~indexExists THEN Fails(op, "Board not found")
          ELSE IF ~TaskExists(files, task_id) THEN Fails(op, "Task not found")
          ELSE IF new_task_id # task_id /\ TaskExists(files, new_task_id)
          THEN Fails(op, "Cannot rename: task already exists")
          ELSE IF new_task_id # task_id
          THEN /\ files' = RenameFile(fs1, task_id, new_task_id)
               /\ IF column # NoColumn THEN KanbnBoard_save(board1)
                  ELSE UNCHANGED <<indexExists, options, columns>>
               /\ result' = [op |-> op, success |-> TRUE, task_id |-> new_task_id,
                             previous_task_id |-> task_id, renamed |-> TRUE,
                             name |-> name, description |-> description]
          ELSE /\ files' = fs1
               /\ UNCHANGED <<indexExists, options, columns>>
               /\ result' = [op |-> op, success |-> TRUE, task_id |-> task_id,
                             renamed |-> FALSE, name |-> name,
                             description |-> description]

\* get_task with a task_id: the column and task.to_dict() of the loaded task.
Text_get_task(task_id) ==
    LET op == "get_task"
    IN /\ Called
       /\ UNCHANGED disk
       /\ result' = IF ~indexExists
                    THEN [op |-> op, success |-> FALSE, error |-> "Board not found"]
                    ELSE IF ~TaskExists(files, task_id)
                    THEN [op |-> op, success |-> FALSE, error |-> "Task not found"]
                    ELSE [op |-> op, success |-> TRUE, id |-> task_id,
                          column |-> find_task_column(KanbnBoard_load, task_id)]
                             @@ KanbnTask_load(files[task_id])

\* ------------------------------------------- add_task, callers side by side
\* The core takes no lock: the calls of two callers interleave at the reads
\* and writes of the files. running[p] is the call of caller p: the line it
\* has reached, its arguments, the board object it loaded, and the dict it
\* returned; number is the position of the call among all calls, and racing
\* the numbers of the calls that had loaded the index and not yet saved it
\* when this call saved it.
Callers == {1, 2}

\* Caller p calls add_task(name, column).
add_task_called(p, name, column) ==
    /\ running[p].pc \in {"idle", "returned"}
    /\ ops < limit
    /\ ops' = ops + 1
    /\ running' = [running EXCEPT ![p] =
                      [pc |-> "called", name |-> name, column |-> column,
                       board |-> [options |-> << >>, columns |-> << >>],
                       returned |-> [success |-> FALSE, error |-> "none"],
                       number |-> ops + 1, racing |-> {}]]
    /\ UNCHANGED <<disk, clock, limit, result>>

\* The call of caller p returns.
Returns(p, returned) ==
    /\ running' = [running EXCEPT
                      ![p].pc = "returned",
                      ![p].returned = returned,
                      ![p].racing =
                          IF running[p].pc = "created"
                          THEN { running[q].number :
                                   q \in { c \in Callers \ {p} :
                                             running[c].pc \in {"loaded", "checked",
                                                                "created"} } }
                          ELSE {}]
    /\ result' = [op |-> "add_task"] @@ returned

\* board.exists and board.load()
add_task_load(p) ==
    /\ running[p].pc = "called"
    /\ IF ~indexExists THEN Returns(p, [success |-> FALSE, error |-> "Board not found"])
       ELSE /\ running' = [running EXCEPT ![p].pc = "loaded", ![p].board = KanbnBoard_load]
            /\ UNCHANGED result
    /\ UNCHANGED <<disk, clock, ops, limit>>

\* The column test, to_kebab_case and task.exists.
add_task_check(p) ==
    LET call == running[p]
    IN /\ call.pc = "loaded"
       /\ IF ~HasColumn(call.board, call.column)
          THEN Returns(p, [success |-> FALSE, error |-> "Column not found"])
          ELSE IF TaskExists(files, to_kebab_case(call.name))
          THEN Returns(p, [success |-> FALSE, error |-> "Task already exists"])
          ELSE /\ running' = [running EXCEPT ![p].pc = "checked"]
               /\ UNCHANGED result
       /\ UNCHANGED <<disk, clock, ops, limit>>

\* task.create, board.add_task_to_column and _apply_column_behavior: create
\* tests the file again and raises FileExistsError, which add_task turns into
\* a failure; a file that another caller wrote between that test and the write
\* is written over.
add_task_create(p) ==
    LET call == running[p]
        task_id == to_kebab_case(call.name)
        created == KanbnTask_create(call.name, now_iso)
        board1 == add_task_to_column(call.board, task_id, call.column)
        entered == apply_column_behavior(board1, created, call.column, now_iso)
    IN /\ call.pc = "checked"
       /\ \/ /\ TaskExists(files, task_id)
             /\ Returns(p, [success |-> FALSE, error |-> "Task already exists"])
             /\ UNCHANGED files
          \/ /\ files' = KanbnTask_save(files, task_id, entered.task)
             /\ running' = [running EXCEPT ![p].pc = "created", ![p].board = board1]
             /\ UNCHANGED result
       /\ UNCHANGED <<indexExists, options, columns, clock, ops, limit>>

\* board.save() under a lock that add_task took before its load: the index
\* saved is the stored one with the identifier added.
add_task_save_locked(p) ==
    LET call == running[p]
        task_id == to_kebab_case(call.name)
    IN /\ call.pc = "created"
       /\ KanbnBoard_save(add_task_to_column(KanbnBoard_load, task_id, call.column))
       /\ Returns(p, [success |-> TRUE, task_id |-> task_id, column |-> call.column])
       /\ UNCHANGED <<files, clock, ops, limit>>

\* board.save() and the return of the success dict: the board object the
\* caller loaded, with its identifier added, replaces index.md.
add_task_save(p) ==
    LET call == running[p]
    IN /\ call.pc = "created"
       /\ KanbnBoard_save(call.board)
       /\ Returns(p, [success |-> TRUE, task_id |-> to_kebab_case(call.name),
                      column |-> call.column])
       /\ UNCHANGED <<files, clock, ops, limit>>

\* ------------------------------------------- to_kebab_case, called directly
\* The two names of the docstring: "Setup FastAPI Project" and "SQLAlchemy".
DocstringNames ==
    { <<"S", "e", "t", "u", "p", " ", "F", "a", "s", "t", "A", "P", "I", " ",
        "P", "r", "o", "j", "e", "c", "t">>,
      <<"S", "Q", "L", "A", "l", "c", "h", "e", "m", "y">> }

\* The texts handed to to_kebab_case: the names of the docstring and every
\* text of at most MaxNameLen characters over a lower-case letter, two
\* capitals and three special characters.
KebabTexts == DocstringNames \cup SeqsUpTo({"a", "A", "B", " ", "-", "_"}, MaxNameLen)

\* A caller derives the identifier of the text it holds.
Call_to_kebab_case ==
    /\ Called
    /\ result.op = "text"
    /\ result' = [op |-> "to_kebab_case", success |-> TRUE, text |-> result.text,
                  identifier |-> to_kebab_case(result.text)]
    /\ UNCHANGED disk

\* ---------------------------------------------- the protocol tools (FastMCP)
\* The parameters of the controller methods, kanbn_path aside.
ControllerParameters ==
    [init_board |-> {"name", "description", "columns"},
     add_task |-> {"name", "description", "column", "tags", "assigned", "due", "subtasks"},
     move_task |-> {"task_id", "target_column"},
     update_task |-> {"task_id", "name", "description", "tags", "assigned", "due",
                      "progress", "subtasks"},
     get_task |-> {"task_id"},
     delete_task |-> {"task_id"},
     add_column |-> {"column_name", "position"},
     reorder_tasks |-> {"column", "task_ids"}]

\* The keyword arguments with which each tool of kanbn_mcp.py calls the
\* controller method of its name, kanbn_path aside.
ToolKeywords ==
    [init_board |-> {"name", "description", "columns"},
     add_task |-> {"name", "description", "column", "tags", "assigned", "due", "started",
                   "completed", "subtasks"},
     move_task |-> {"task_id", "target_column"},
     update_task |-> {"task_id", "name", "description", "tags", "assigned", "due",
                      "started", "completed", "progress", "subtasks"},
     get_task |-> {"task_id"},
     delete_task |-> {"task_id"},
     add_column |-> {"column_name", "position"},
     reorder_tasks |-> {"column", "task_ids"}]

\* A tool is called: it returns what the controller method returns, or the
\* call of the method raises TypeError for a keyword the method does not
\* have, before any of its code runs, and the exception leaves the tool.
Tool(op, forwarded) ==
    IF ToolKeywords[op] \subseteq ControllerParameters[op] THEN forwarded
    ELSE /\ Called
         /\ result' = [op |-> op, raised |-> "TypeError"]
         /\ UNCHANGED disk

\* ------------------------------------------------------------ specification
\* Before init_board: no board directory, no index, no task file.
NoBoard ==
    /\ indexExists = FALSE
    /\ options = << >>
    /\ columns = << >>
    /\ files = << >>
    /\ clock = 0
    /\ ops = 0
    /\ running = << >>
    /\ result = [op |-> "none", success |-> FALSE, error |-> "none"]

Init == NoBoard /\ limit = MaxOps

\* One call of a controller operation, or the clock advancing between calls.
Next ==
    \/ \E cols \in ColumnLists : init_board(cols)
    \/ \E name \in Names, column \in ColumnNames : add_task(name, column)
    \/ \E task_id \in TaskIds, column \in ColumnNames : move_task(task_id, column)
    \/ \E task_id \in TaskIds, name \in {NoneArg} \cup {Given(n) : n \in Names},
          progress \in {NoneArg} \cup {Given(p) : p \in ProgressInputs} :
            update_task(task_id, name, progress)
    \/ \E task_id \in TaskIds : delete_task(task_id)
    \/ \E column \in ColumnNames, position \in Positions : add_column(column, position)
    \/ \E column \in ColumnNames, task_ids \in SeqsUpTo(ReorderIds, MaxOrderLen) :
            reorder_tasks(column, task_ids)
    \/ Tick

\* Runs of at most MaxOps operations.
Spec == Init /\ [][Next]_vars

\* Runs of at most MaxOpsLong operations.
InitLong == NoBoard /\ limit = MaxOpsLong

SpecLong == InitLong /\ [][Next]_vars

\* The operations, get_task among them, and a renaming update_task that is
\* interrupted between its two writes.
NextCrash ==
    \/ Next
    \/ \E task_id \in TaskIds, name \in {Given(n) : n \in Names},
          progress \in {NoneArg} \cup {Given(p) : p \in ProgressInputs} :
            update_task_interrupted(task_id, name, progress)
    \/ \E task_id \in {NoneArg} \cup {Given(t) : t \in TaskIds} : get_task(task_id)

\* Runs of at most MaxOpsLong operations, interruptions included.
SpecCrash == InitLong /\ [][NextCrash]_vars

\* A board in use: the state init_board(), add_task("a", "Backlog") and
\* add_task("aB", "Backlog") leave at time 0.
InitInUse ==
    /\ indexExists = TRUE
    /\ options = DEFAULT_INDEX_OPTIONS
    /\ columns = add_task_to_column(
                     add_task_to_column(KanbnBoard_create(NoneArg), <<"a">>, "Backlog"),
                     to_kebab_case(<<"a", "B">>), "Backlog").columns
    /\ files = KanbnTask_save(
                   KanbnTask_save(<< >>, <<"a">>, KanbnTask_create(<<"a">>, 0)),
                   to_kebab_case(<<"a", "B">>), KanbnTask_create(<<"a", "B">>, 0))
    /\ clock = 0
    /\ ops = 0
    /\ running = << >>
    /\ result = [op |-> "add_task", success |-> TRUE,
                 task_id |-> to_kebab_case(<<"a", "B">>), column |-> "Backlog"]
    /\ limit = MaxOpsInUse

\* Runs of at most MaxOpsInUse operations on a board in use.
SpecInUse == InitInUse /\ [][Next]_vars

\* The board object KanbnBoard.create leaves, for the default columns or for
\* the columns given.
InitBoard ==
    /\ \E cols \in ColumnLists :
          /\ options = KanbnBoard_create(cols).options
          /\ columns = KanbnBoard_create(cols).columns
    /\ indexExists = TRUE
    /\ files = << >>
    /\ clock = 0
    /\ ops = 0
    /\ running = << >>
    /\ result = [op |-> "KanbnBoard.create", success |-> TRUE]
    /\ limit = MaxBoardCalls

\* One call of a method of the board object.
NextBoard ==
    \/ \E task_id \in TaskIds, column \in ColumnNames :
            Board_add_task_to_column(task_id, column)
    \/ \E task_id \in TaskIds, column \in ColumnNames :
            Board_remove_task_from_column(task_id, column)
    \/ \E task_id \in TaskIds, column \in ColumnNames : Board_move_task(task_id, column)
    \/ \E column \in ColumnNames, task_ids \in SeqsUpTo(ReorderIds, MaxOrderLen) :
            Board_reorder_tasks(column, task_ids)

\* Runs of at most MaxBoardCalls method calls on one board object.
SpecBoard == InitBoard /\ [][NextBoard]_vars

\* The default board with no task file yet.
InitTask ==
    /\ indexExists = TRUE
    /\ options = KanbnBoard_create(NoneArg).options
    /\ columns = KanbnBoard_create(NoneArg).columns
    /\ files = << >>
    /\ clock = 0
    /\ ops = 0
    /\ running = << >>
    /\ result = [op |-> "KanbnBoard.create", success |-> TRUE]
    /\ limit = MaxTaskCalls

\* One call of a method of the task object, the task entering a column, or
\* the clock advancing between calls.
NextTask ==
    \/ \E tags \in TagArgs, started \in TimeArgs, completed \in TimeArgs :
            Task_create(tags, started, completed)
    \/ \E tags \in TagArgs, progress \in {NoneArg} \cup {Given(p) : p \in ProgressInputs},
          started \in TimeArgs, completed \in TimeArgs :
            Task_update(tags, progress, started, completed)
    \/ Task_delete
    \/ \E column \in ColumnNames : Task_enters(column)
    \/ Tick

\* Runs of at most MaxTaskCalls method calls on one task object.
SpecTask == InitTask /\ [][NextTask]_vars

\* The default board and one task identifier, with no file or with a file of
\* at most MaxLines lines under the header KanbnTask.create writes at time 0.
InitFile ==
    /\ indexExists = TRUE
    /\ options = KanbnBoard_create(NoneArg).options
    /\ columns = KanbnBoard_create(NoneArg).columns
    /\ \/ files = << >>
       \/ \E body \in SeqsUpTo(FileLines, MaxLines) :
             files = (TaskId :>
                        [metadata |-> [created |-> 0, updated |-> 0, progress |-> 0,
                                       tags |-> <<"Small">>, started |-> None,
                                       completed |-> None],
                         body |-> body])
    /\ clock = 0
    /\ ops = 0
    /\ running = << >>
    /\ result = [op |-> "KanbnBoard.create", success |-> TRUE]
    /\ limit = MaxFileCalls

\* One read or write of the task file, or the clock advancing between calls.
\* create is given a name or a blank name, and no description, one line, or
\* a heading with a line under it; update is given None or a value for each
\* of its arguments.
NextFile ==
    \/ \E name \in { <<"T">>, <<" ">> },
          description \in { <<>>, << <<"n">> >>, <<Level2 \o <<"N">>, <<"n">>>> } :
            File_create(name, description)
    \/ \E name \in { NoneArg, Given(<<"T">>) },
          description \in { NoneArg, Given(<< <<"n">> >>) },
          tags \in { NoneArg, Given(<<"bug">>) },
          progress \in { NoneArg, Given(5) },
          subtasks \in { NoneArg, Given(<<[text |-> <<"s">>, completed |-> FALSE]>>) } :
            File_update(name, description, tags, progress, subtasks)
    \/ \E column \in ColumnNames : File_move(column)
    \/ File_get
    \/ Tick

\* Runs of at most MaxFileCalls reads and writes of one task file.
SpecFile == InitFile /\ [][NextFile]_vars


\* column lists handed to init_board when the board is set up: None, or up to
\* two different names, the empty name among them.
SetupColumnLists ==
    {NoneArg} \cup { Given(names) : names \in { l \in SeqsUpTo({"Backlog", "Done", ""}, 2) :
                                                  DictKeys(l) = l } }

\* Setting a board up: init_board with the columns the caller names, columns
\* added afterwards, and the clock advancing between calls.
NextSetup ==
    \/ \E cols \in SetupColumnLists : init_board(cols)
    \/ \E column \in ColumnNames, position \in Positions : add_column(column, position)
    \/ Tick

InitSetup == NoBoard /\ limit = MaxSetupOps

\* Runs of at most MaxSetupOps operations that set a board up.
SpecSetup == InitSetup /\ [][NextSetup]_vars

\* A board whose index was not written by init_board: the default columns
\* under a header that has both, one or none of the two keys the core
\* consults, and no task yet.
InitOptions ==
    /\ indexExists = TRUE
    /\ options \in { DEFAULT_INDEX_OPTIONS,
                     [startedColumns |-> {"In Progress"}],
                     [completedColumns |-> {"Done"}],
                     << >> }
    /\ columns = KanbnBoard_create(NoneArg).columns
    /\ files = << >>
    /\ clock = 0
    /\ ops = 0
    /\ running = << >>
    /\ result = [op |-> "none", success |-> FALSE, error |-> "none"]
    /\ limit = MaxOptionsOps

\* Runs of at most MaxOptionsOps operations on such a board.
SpecOptions == InitOptions /\ [][Next]_vars

\* No board, and a caller holding a text.
InitKebab ==
    /\ indexExists = FALSE
    /\ options = << >>
    /\ columns = << >>
    /\ files = << >>
    /\ clock = 0
    /\ ops = 0
    /\ running = << >>
    /\ \E text \in KebabTexts : result = [op |-> "text", success |-> TRUE, text |-> text]
    /\ limit = 1

NextKebab == Call_to_kebab_case

\* to_kebab_case applied to each of the texts.
SpecKebab == InitKebab /\ [][NextKebab]_vars

\* No board yet, and callers that reach the controller through the tools.
InitTools == NoBoard /\ limit = MaxToolCalls

\* One call of a protocol tool, or the clock advancing between calls.
NextTools ==
    \/ \E cols \in ColumnLists : Tool("init_board", init_board(cols))
    \/ \E name \in Names, column \in ColumnNames : Tool("add_task", add_task(name, column))
    \/ \E task_id \in TaskIds, column \in ColumnNames :
            Tool("move_task", move_task(task_id, column))
    \/ \E task_id \in TaskIds, name \in {NoneArg} \cup {Given(n) : n \in Names},
          progress \in {NoneArg} \cup {Given(p) : p \in ProgressInputs} :
            Tool("update_task", update_task(task_id, name, progress))
    \/ \E task_id \in {NoneArg} \cup {Given(t) : t \in TaskIds} :
            Tool("get_task", get_task(task_id))
    \/ \E task_id \in TaskIds : Tool("delete_task", delete_task(task_id))
    \/ \E column \in ColumnNames, position \in Positions :
            Tool("add_column", add_column(column, position))
    \/ \E column \in ColumnNames, task_ids \in SeqsUpTo(ReorderIds, MaxOrderLen) :
            Tool("reorder_tasks", reorder_tasks(column, task_ids))
    \/ Tick

\* Runs of at most MaxToolCalls tool calls.
SpecTools == InitTools /\ [][NextTools]_vars

\* One call of a controller operation by a caller that gives descriptions, or
\* the clock advancing between calls.
NextDescribed ==
    \/ \E name \in DescribedNames, description \in Descriptions, column \in ColumnNames :
            Text_add_task(name, description, column)
    \/ \E task_id \in DescribedNames, column \in ColumnNames : Text_move_task(task_id, column)
    \/ \E task_id \in DescribedNames, name \in {NoneArg} \cup {Given(n) : n \in DescribedNames},
          description \in {NoneArg} \cup {Given(d) : d \in Descriptions} :
            Text_update_task(task_id, name, description)
    \/ \E task_id \in DescribedNames : Text_get_task(task_id)
    \/ Tick

\* Runs of at most MaxTaskCalls operations on the default board, the task
\* files being kept as their text.
SpecDescribed == InitTask /\ [][NextDescribed]_vars

\* The default board with no task yet, and callers that have made no call.
InitConcurrent ==
    /\ indexExists = TRUE
    /\ options = KanbnBoard_create(NoneArg).options
    /\ columns = KanbnBoard_create(NoneArg).columns
    /\ files = << >>
    /\ clock = 0
    /\ ops = 0
    /\ result = [op |-> "KanbnBoard.create", success |-> TRUE]
    /\ limit = MaxConcurrentCalls
    /\ running = [p \in Callers |->
                     [pc |-> "idle", name |-> << >>, column |-> "Backlog",
                      board |-> [options |-> << >>, columns |-> << >>],
                      returned |-> [success |-> FALSE, error |-> "none"],
                      number |-> 0, racing |-> {}]]

\* One step of the add_task call of one caller.
NextConcurrent ==
    \/ \E p \in Callers, name \in DescribedNames, column \in {"Backlog", "Done", "Review"} :
            add_task_called(p, name, column)
    \/ \E p \in Callers : add_task_load(p)
    \/ \E p \in Callers : add_task_check(p)
    \/ \E p \in Callers : add_task_create(p)
    \/ \E p \in Callers : add_task_save(p)

\* Runs of at most MaxConcurrentCalls add_task calls by two callers.
SpecConcurrent == InitConcurrent /\ [][NextConcurrent]_vars

\* The operations, and an add_task that is interrupted between its two writes.
NextAddCrash ==
    \/ Next
    \/ \E name \in Names, column \in ColumnNames : add_task_interrupted(name, column)

\* Runs of at most MaxOps operations, interruptions of add_task included.
SpecAddCrash == Init /\ [][NextAddCrash]_vars

\* No board yet, the board init_board() leaves, or the board init_board() and
\* add_task("a") leave at time 0; a caller that makes one call.
InitBatch ==
    /\ \/ /\ indexExists = FALSE
          /\ options = << >>
          /\ columns = << >>
          /\ files = << >>
       \/ /\ indexExists = TRUE
          /\ options = DEFAULT_INDEX_OPTIONS
          /\ columns = KanbnBoard_create(NoneArg).columns
          /\ files = << >>
       \/ /\ indexExists = TRUE
          /\ options = DEFAULT_INDEX_OPTIONS
          /\ columns = add_task_to_column(KanbnBoard_create(NoneArg), <<"a">>,
                                          "Backlog").columns
          /\ files = KanbnTask_save(<< >>, <<"a">>, KanbnTask_create(<<"a">>, 0))
    /\ clock = 0
    /\ ops = 0
    /\ result = [op |-> "none", success |-> FALSE, error |-> "none"]
    /\ limit = 1
    /\ running = << >>

\* The lists handed to batch_add_tasks: at most MaxBatch specifications, each
\* without a name, with the empty name, with the name of the task the board
\* has or with a new name, and without a column or with one the board lacks.
BatchLists ==
    SeqsUpTo([name : {NoneArg, Given(<< >>), Given(<<"a">>), Given(<<"b">>)},
              column : {NoneArg, Given("Review")}], MaxBatch)

\* One call of batch_add_tasks, or the clock advancing.
NextBatch ==
    \/ \E tasks \in BatchLists, default_column \in {"Backlog", "Done"} :
            batch_add_tasks(tasks, default_column)
    \/ Tick

\* One call of batch_add_tasks on each of these boards.
SpecBatch == InitBatch /\ [][NextBatch]_vars

\* ============================================================ properties
\* Identifiers listed in some column of the stored index.
IndexedIds == UNION { ToSet(columns[i].tasks) : i \in 1..Len(columns) }

\* The columns of the stored index that list task_id.
ColumnsListing(task_id) == { i \in 1..Len(columns) : InSeq(task_id, columns[i].tasks) }

\* Names of the columns of the stored index.
StoredColumns == { columns[i].name : i \in 1..Len(columns) }

\* The stored list of a column (empty when the index has no such column).
StoredTasks(column) ==
    IF column \in StoredColumns
    THEN columns[CHOOSE i \in 1..Len(columns) : columns[i].name = column].tasks
    ELSE <<>>

\* The list of a column in the index as the step leaves it.
StoredTasksAfter(column) ==
    IF \E i \in 1..Len(columns') : columns'[i].name = column
    THEN columns'[CHOOSE i \in 1..Len(columns') : columns'[i].name = column].tasks
    ELSE <<>>

\* C1: after every operation the identifiers listed in the index are exactly
\* the identifiers that have a task file.
C1_IndexMatchesFiles == IndexedIds = DOMAIN files

\* C2: every task identifier is listed in at most one column.
C2_AtMostOneColumn == \A task_id \in IndexedIds : Cardinality(ColumnsListing(task_id)) <= 1

\* The name arguments of update_task: None or a supplied name.
NameArgs == {NoneArg} \cup { Given(n) : n \in Names }

\* The progress arguments of update_task: None or a supplied value.
ProgressArgs == {NoneArg} \cup { Given(p) : p \in ProgressInputs }

\* A sequence without the entries equal to x.
RECURSIVE Without(_, _)
Without(s, x) ==
    IF s = <<>> THEN <<>>
    ELSE IF Head(s) = x THEN Without(Tail(s), x)
    ELSE <<Head(s)>> \o Without(Tail(s), x)

\* Last entry of a non-empty list is x.
IsLast(x, s) == Len(s) > 0 /\ s[Len(s)] = x

\* Column names the stored index has or the callers use.
AllColumns == ColumnNames \cup ToSet(DEFAULT_COLUMNS)

\* The step is a call of the named operation.
Ran(op) == ops' # ops /\ result'.op = op

\* C3: add_task for a name whose identifier already has a task file fails and
\* changes neither that file nor the index.
C3_AddCollisionRejected ==
    [][Ran("add_task") =>
          \A name \in Names, column \in ColumnNames :
              (to_kebab_case(name) \in DOMAIN files /\ add_task(name, column))
                  => (result'.success = FALSE /\ UNCHANGED disk)]_vars

\* C3 witness: an add_task was rejected as already existing, the task file
\* there having been created under the other name of the same identifier.
C3_Witness ==
    /\ result.op = "add_task"
    /\ result.success = FALSE
    /\ result.error = "Task already exists"
    /\ <<"a">> \in DOMAIN files
    /\ files[<<"a">>].name = <<"A">>

\* C4: a name deriving the empty identifier makes add_task and a renaming
\* update_task fail without creating or moving a file or touching the index.
C4_EmptyIdentifierRejected ==
    [][/\ Ran("add_task") =>
             \A name \in Names, column \in ColumnNames :
                 (to_kebab_case(name) = <<>> /\ add_task(name, column))
                     => (result'.success = FALSE /\ UNCHANGED disk)
       /\ Ran("update_task") =>
             \A task_id \in TaskIds \ {<<>>}, name \in Names, progress \in ProgressArgs :
                 (to_kebab_case(name) = <<>> /\ update_task(task_id, Given(name), progress))
                     => (result'.success = FALSE /\ UNCHANGED disk)]_vars

\* C5: a successful add_task creates the file of the derived identifier,
\* returns that identifier and appends it as the last entry of the named
\* column; nothing else in the index changes.
C5_AddAppends ==
    [][(Ran("add_task") /\ result'.success) =>
          \A name \in Names, column \in ColumnNames :
              add_task(name, column)
                  => /\ to_kebab_case(name) \notin DOMAIN files
                     /\ to_kebab_case(name) \in DOMAIN files'
                     /\ result'.task_id = to_kebab_case(name)
                     /\ StoredTasksAfter(column)
                            = Append(StoredTasks(column), to_kebab_case(name))
                     /\ \A other \in AllColumns \ {column} :
                           StoredTasksAfter(other) = StoredTasks(other)]_vars

\* C6: a successful move_task of an identifier listed in column c returns c,
\* leaves the identifier last in the target and (when c is not the target)
\* absent from c; the other identifiers keep their column and relative order.
C6_MoveRelocates ==
    [][(Ran("move_task") /\ result'.success) =>
          \A task_id \in TaskIds, target \in ColumnNames, c \in AllColumns :
              (InSeq(task_id, StoredTasks(c)) /\ move_task(task_id, target))
                  => /\ result'.from_column = c
                     /\ IsLast(task_id, StoredTasksAfter(target))
                     /\ c # target => ~InSeq(task_id, StoredTasksAfter(c))
                     /\ \A k \in AllColumns :
                           Without(StoredTasksAfter(k), task_id)
                               = Without(StoredTasks(k), task_id)]_vars

\* The completedColumns / startedColumns of the stored index header.
CompletedColumns ==
    IF "completedColumns" \in DOMAIN options THEN options["completedColumns"] ELSE {}

StartedColumns ==
    IF "startedColumns" \in DOMAIN options THEN options["startedColumns"] ELSE {}

\* C7: every entry of an existing task into a completed column, by add_task
\* or by move_task, sets completed to the time of the operation and progress
\* to 1.0.
C7_CompletedStamped ==
    [][/\ (Ran("add_task") /\ result'.success) =>
             \A name \in Names, column \in CompletedColumns \cap ColumnNames :
                 add_task(name, column)
                     => /\ files'[to_kebab_case(name)].completed = now_iso
                        /\ files'[to_kebab_case(name)].progress = ProgressOne
       /\ (Ran("move_task") /\ result'.success) =>
             \A task_id \in DOMAIN files, target \in CompletedColumns \cap ColumnNames :
                 move_task(task_id, target)
                     => /\ files'[task_id].completed = now_iso
                        /\ files'[task_id].progress = ProgressOne]_vars

\* C7 witness: a task created at an earlier time was moved into the completed
\* column it was already in, and carries the time of the move as completed.
C7_Witness ==
    /\ result.op = "move_task"
    /\ result.success
    /\ result.to_column \in CompletedColumns
    /\ result.from_column = result.to_column
    /\ result.task_id \in DOMAIN files
    /\ files[result.task_id].created < clock
    /\ files[result.task_id].completed = clock
    /\ files[result.task_id].progress = ProgressOne

\* C8: entering a started column stamps started only when the task has none;
\* a started value that is set is never changed by any operation (a rename
\* carries it to the new identifier).
C8_StartedStampedOnce ==
    [][/\ (Ran("add_task") /\ result'.success) =>
             \A name \in Names, column \in StartedColumns \cap ColumnNames :
                 add_task(name, column) => files'[to_kebab_case(name)].started = now_iso
       /\ (Ran("move_task") /\ result'.success) =>
             \A task_id \in DOMAIN files, target \in StartedColumns \cap ColumnNames :
                 (files[task_id].started = None /\ move_task(task_id, target))
                     => files'[task_id].started = now_iso
       /\ \A task_id \in DOMAIN files :
             files[task_id].started # None =>
                 IF Ran("update_task") /\ result'.success /\ result'.renamed
                       /\ result'.previous_task_id = task_id
                 THEN files'[result'.task_id].started = files[task_id].started
                 ELSE task_id \in DOMAIN files' =>
                          files'[task_id].started = files[task_id].started]_vars

\* C8 witness: a task started at an earlier time was moved into a started
\* column again and still carries the first timestamp.
C8_Witness ==
    /\ result.op = "move_task"
    /\ result.success
    /\ result.to_column \in StartedColumns
    /\ result.task_id \in DOMAIN files
    /\ files[result.task_id].started # None
    /\ files[result.task_id].started < clock
    /\ files[result.task_id].updated = clock

\* C9: move_task to a column the index does not have fails and changes
\* neither the index nor any task file.
C9_MoveUnknownColumnRejected ==
    [][Ran("move_task") =>
          \A task_id \in TaskIds, target \in ColumnNames :
              (target \notin StoredColumns /\ move_task(task_id, target))
                  => (result'.success = FALSE /\ UNCHANGED disk)]_vars

\* C9 witness: a move_task was rejected for its column on a board that lists
\* a task with a file.
C9_Witness ==
    /\ result.op = "move_task"
    /\ result.success = FALSE
    /\ result.error = "Column not found"
    /\ indexExists
    /\ IndexedIds \cap DOMAIN files # {}

\* C10: a successful renaming update_task leaves no file under the old
\* identifier and a file with the updated fields under the new one; the
\* column that listed the old identifier lists the new one and not the old
\* one; the index is unchanged when no column listed the old identifier.
C10_RenameMovesFileAndEntry ==
    [][(Ran("update_task") /\ result'.success /\ result'.renamed) =>
          \A task_id \in DOMAIN files, name \in Names, progress \in ProgressArgs :
              (to_kebab_case(name) # task_id /\ update_task(task_id, Given(name), progress))
                  => /\ task_id \notin DOMAIN files'
                     /\ to_kebab_case(name) \in DOMAIN files'
                     /\ files'[to_kebab_case(name)]
                            = TaskCodec(KanbnTask_update(files[task_id], Given(name),
                                                         progress, now_iso))
                     /\ \A c \in AllColumns :
                           InSeq(task_id, StoredTasks(c))
                               => /\ InSeq(to_kebab_case(name), StoredTasksAfter(c))
                                  /\ ~InSeq(task_id, StoredTasksAfter(c))
                     /\ task_id \notin IndexedIds => UNCHANGED columns]_vars

\* C11: update_task with a new name whose identifier differs from the current
\* one and already has a task file fails with the collision error and changes
\* no task file (not even updated), moves no file and leaves the index as it
\* was.
C11_RenameCollisionRejected ==
    [][Ran("update_task") =>
          \A name \in Names :
              KebabOf[name] \in DOMAIN files =>
                  \A task_id \in DOMAIN files \ {KebabOf[name]}, progress \in ProgressArgs :
                      update_task(task_id, Given(name), progress)
                          => /\ result'.success = FALSE
                             /\ result'.error = "Cannot rename: task already exists"
                             /\ UNCHANGED disk]_vars

\* C11 witness: a rename was rejected for its collision at a time later than
\* the last write of the two task files there are.
C11_Witness ==
    /\ result.op = "update_task"
    /\ result.success = FALSE
    /\ result.error = "Cannot rename: task already exists"
    /\ Cardinality(DOMAIN files) >= 2
    /\ \A task_id \in DOMAIN files : files[task_id].updated < clock

\* C12: a renaming update_task interrupted between the move of the file and
\* the save of the index leaves the index listing the old identifier, which has
\* no task file, and the new file listed in no column; the board still loads,
\* get_task of the old identifier reports it not found and get_task of all
\* tasks skips it.
C12_InterruptedRenameState ==
    [][Ran("update_task_interrupted") =>
          \A task_id \in IndexedIds \cap DOMAIN files, name \in Names,
             progress \in ProgressArgs :
              update_task_interrupted(task_id, Given(name), progress)
                  => /\ task_id \in IndexedIds'
                     /\ task_id \notin DOMAIN files'
                     /\ to_kebab_case(name) \in DOMAIN files'
                     /\ to_kebab_case(name) \notin IndexedIds'
                     /\ get_task_returns(Given(task_id))'
                            = [op |-> "get_task", success |-> FALSE,
                               error |-> "Task not found"]
                     /\ get_task_returns(NoneArg)'.success
                     /\ \A k \in 1..Len(get_task_returns(NoneArg)'.tasks) :
                            get_task_returns(NoneArg)'.tasks[k].id # task_id]_vars

\* C13: delete_task on an existing board returns success whether or not the
\* identifier has a task file or an index entry; afterwards it has no task
\* file and, when at most one column listed it, no column lists it; the other
\* identifiers and files are as before.
C13_DeleteRemoves ==
    [][Ran("delete_task") =>
          \A task_id \in TaskIds :
              (indexExists /\ delete_task(task_id))
                  => /\ result'.success
                     /\ DOMAIN files' = DOMAIN files \ {task_id}
                     /\ \A other \in DOMAIN files' : files'[other] = files[other]
                     /\ Cardinality(ColumnsListing(task_id)) <= 1
                            => task_id \notin IndexedIds'
                     /\ \A k \in AllColumns :
                            Without(StoredTasksAfter(k), task_id)
                                = Without(StoredTasks(k), task_id)]_vars

\* Number of entries of s equal to x.
Count(s, x) == Len(s) - Len(Without(s, x))

\* s is an exact permutation of t: every identifier as many times in both.
IsPermutation(s, t) == \A x \in ToSet(s) \cup ToSet(t) : Count(s, x) = Count(t, x)

\* The lists the callers hand to reorder_tasks.
OrderArgs == SeqsUpTo(ReorderIds, MaxOrderLen)

\* C14: reorder_tasks fails with the set-mismatch error for every list that is
\* not an exact permutation of the column's list: one that omits an
\* identifier, adds an unknown one or repeats one more often than the column
\* holds it.
C14_NonPermutationRejected ==
    [][Ran("reorder_tasks") =>
          \A column \in StoredColumns \cap ColumnNames, task_ids \in OrderArgs :
              (~IsPermutation(task_ids, StoredTasks(column))
                  /\ reorder_tasks(column, task_ids))
                  => /\ result'.success = FALSE
                     /\ result'.error = "Missing tasks / Unknown tasks"]_vars

\* C15: whenever reorder_tasks fails, for an unknown column or a set mismatch,
\* the stored index is unchanged: every column keeps its list and its order.
C15_FailedReorderKeepsIndex ==
    [][(Ran("reorder_tasks") /\ ~result'.success)
          => UNCHANGED <<indexExists, options, columns>>]_vars

\* C15 witness: a reorder_tasks was rejected for a set mismatch on a board
\* that lists a task.
C15_Witness ==
    /\ result.op = "reorder_tasks"
    /\ result.success = FALSE
    /\ result.error = "Missing tasks / Unknown tasks"
    /\ IndexedIds # {}

\* C16: a successful reorder_tasks returns the order the column had before the
\* call, stores the new order as the column's list, keeps the set of
\* identifiers of the column and leaves every other column as it was.
C16_ReorderReplacesOrder ==
    [][(Ran("reorder_tasks") /\ result'.success) =>
          \A column \in ColumnNames \cap {result'.column},
             task_ids \in OrderArgs \cap {result'.new_order} :
              reorder_tasks(column, task_ids)
                  => /\ result'.previous_order = StoredTasks(column)
                     /\ StoredTasksAfter(column) = task_ids
                     /\ ToSet(StoredTasksAfter(column)) = ToSet(StoredTasks(column))
                     /\ \A other \in AllColumns \ {column} :
                            StoredTasksAfter(other) = StoredTasks(other)
                     /\ Len(columns') = Len(columns)
                     /\ \A i \in 1..Len(columns) : columns'[i].name = columns[i].name]_vars

\* C16 witness: a reorder_tasks succeeded with a permutation that changes the
\* order of a column of two tasks, and the column is stored in the new order.
C16_Witness ==
    /\ result.op = "reorder_tasks"
    /\ result.success
    /\ Len(result.previous_order) = 2
    /\ result.previous_order[1] # result.previous_order[2]
    /\ result.new_order = <<result.previous_order[2], result.previous_order[1]>>
    /\ StoredTasks(result.column) = result.new_order

\* C17: add_task_to_column is idempotent: a second call with the same pair
\* leaves the board unchanged; a call never makes the column hold the
\* identifier more than once when it did not already; a column that does not
\* exist is created holding only the identifier.
C17_AddToColumnIdempotent ==
    [][Ran("KanbnBoard.add_task_to_column") =>
          \A task_id \in TaskIds, column \in ColumnNames :
              Board_add_task_to_column(task_id, column)
                  => /\ (/\ result.op = "KanbnBoard.add_task_to_column"
                          /\ result.task_id = task_id
                          /\ result.column = column) => UNCHANGED <<options, columns>>
                     /\ Count(StoredTasks(column), task_id) <= 1
                            => Count(StoredTasksAfter(column), task_id) = 1
                     /\ column \notin StoredColumns
                            => columns' = Append(columns,
                                                 [name |-> column, tasks |-> <<task_id>>])]_vars

\* C17 witness: the method was called again on a column its first call had
\* created, found the identifier present, and the column holds it once.
C17_Witness ==
    /\ result.op = "KanbnBoard.add_task_to_column"
    /\ result.present
    /\ result.column = "In Progress"
    /\ Len(columns) = 3
    /\ columns[Len(columns)] = [name |-> result.column, tasks |-> <<result.task_id>>]
    /\ IndexedIds = {result.task_id}
    /\ ops = 2

\* C18: every operation that sets the completed field of a task, KanbnTask.create
\* with completed, KanbnTask.update with completed and the entry into a
\* completed column, writes the task with progress 1.0.
C18_CompletedForcesProgress ==
    [][/\ (Ran("KanbnTask.create") /\ result'.success) =>
             \A tags \in TagArgs, started \in TimeArgs, completed \in TimeArgs \ {NoneArg} :
                 Task_create(tags, started, completed)
                     => files'[TaskId].progress = ProgressOne
       /\ (Ran("KanbnTask.update") /\ result'.success) =>
             \A tags \in TagArgs, progress \in ProgressArgs, started \in TimeArgs,
                completed \in TimeArgs \ {NoneArg} :
                 Task_update(tags, progress, started, completed)
                     => files'[TaskId].progress = ProgressOne
       /\ Ran("apply_column_behavior") =>
             \A column \in CompletedColumns \cap ColumnNames :
                 Task_enters(column) => files'[TaskId].progress = ProgressOne]_vars

\* C19: the progress of every task file lies in [0.0, 1.0] after every
\* operation; update_task with a progress below 0 stores 0.0, above 1 stores
\* 1.0, and a value inside the range is stored as given.
C19_ProgressInRange ==
    [][/\ \A task_id \in DOMAIN files' :
             0 <= files'[task_id].progress /\ files'[task_id].progress <= ProgressOne
       /\ (Ran("update_task") /\ result'.success) =>
             \A name \in NameArgs, p \in ProgressInputs :
                 \A task_id \in { t \in DOMAIN files :
                                     result'.task_id = IF name = NoneArg THEN t
                                                       ELSE KebabOf[name[1]] } :
                     update_task(task_id, name, Given(p))
                         => files'[result'.task_id].progress
                                = IF p < 0 THEN 0
                                  ELSE IF p > ProgressOne THEN ProgressOne ELSE p]_vars

\* C19 witness: an update_task left a task that never entered a completed
\* column at progress 1.0, the supplied value having been above the range.
C19_Witness ==
    /\ result.op = "update_task"
    /\ result.success
    /\ result.task_id \in DOMAIN files
    /\ files[result.task_id].progress = ProgressOne
    /\ files[result.task_id].completed = None

\* The tags KanbnTask.create and KanbnTask.update are to store for a supplied
\* list: the tags of the vocabulary in their order, and Small after them when
\* none of them is a workload tag.
TagsToStore(supplied) ==
    LET kept == SelectSeq(supplied, LAMBDA tag : tag \in ALL_VALID_TAGS)
    IN IF \E i \in 1..Len(kept) : kept[i] \in WORKLOAD_TAGS THEN kept
       ELSE Append(kept, "Small")

\* C20: after KanbnTask.create and after every KanbnTask.update that supplies
\* tags the stored tag list holds a workload tag: the tags outside the
\* vocabulary are dropped, Small is appended when no workload tag is left, and
\* the operation succeeds all the same.
C20_WorkloadTagEnsured ==
    [][/\ (Ran("KanbnTask.create") /\ TaskId \notin DOMAIN files) => result'.success
       /\ (Ran("KanbnTask.update") /\ TaskId \in DOMAIN files) => result'.success
       /\ (/\ Ran("KanbnTask.create") \/ Ran("KanbnTask.update")
           /\ result'.success
           /\ result'.op = "KanbnTask.create" \/ result'.tags # NoneArg)
             => /\ \E i \in 1..Len(files'[TaskId].tags) :
                       files'[TaskId].tags[i] \in WORKLOAD_TAGS
                /\ files'[TaskId].tags
                       = TagsToStore(IF result'.tags = NoneArg THEN <<>>
                                     ELSE result'.tags[1])]_vars

\* C20 witness: an update was given one tag outside the vocabulary, succeeded
\* and left Small as the only tag of the task.
C20_Witness ==
    /\ result.op = "KanbnTask.update"
    /\ result.success
    /\ result.tags = Given(<<"bogus">>)
    /\ files[TaskId].tags = <<"Small">>

\* C21: every task written by KanbnTask.create, or by a KanbnTask.update that
\* supplies tags, carries exactly one workload tag.
C21_ExactlyOneWorkloadTag ==
    [][(/\ Ran("KanbnTask.create") \/ Ran("KanbnTask.update")
        /\ result'.success
        /\ result'.op = "KanbnTask.create" \/ result'.tags # NoneArg)
          => Cardinality({ i \in 1..Len(files'[TaskId].tags) :
                              files'[TaskId].tags[i] \in WORKLOAD_TAGS }) = 1]_vars

\* C22: an update changes only the fields that were supplied, and updated:
\* each of name, description, tags, progress, started, completed and the
\* sub-task list that was not supplied reads the same from the task file after
\* the update as before it, and created is unchanged.
C22_UpdateChangesOnlySupplied ==
    [][(Ran("KanbnTask.update") /\ result'.success) =>
          LET before == KanbnTask_load(files[TaskId])
              after == KanbnTask_load(files'[TaskId])
          IN /\ result'.name = NoneArg => after.name = before.name
             /\ result'.description = NoneArg => after.description = before.description
             /\ result'.tags = NoneArg => after.tags = before.tags
             /\ result'.progress = NoneArg => after.progress = before.progress
             /\ result'.subtasks = NoneArg => after.subtasks = before.subtasks
             /\ after.started = before.started
             /\ after.completed = before.completed
             /\ after.created = before.created]_vars

\* The lines of the relation entries (section "relations") or of the comment
\* entries (section "comments") of a body, from line i on, as they stand in the
\* file: a relation is a "- [" line of the Relations section; a comment is a
\* "- author:" line of the Comments section with the indented lines after it.
\* current is the section line i stands in, open whether a comment is open.
RECURSIVE EntryLines(_, _, _, _, _)
EntryLines(lines, i, current, open, section) ==
    IF i > Len(lines) THEN <<>>
    ELSE LET line == lines[i]
             stripped == Strip(line)
         IN IF StartsWith(stripped, Level1)
            THEN EntryLines(lines, i + 1, "description", FALSE, section)
            ELSE IF StartsWith(stripped, Level2)
            THEN EntryLines(lines, i + 1, SectionOf(stripped), FALSE, section)
            ELSE IF current # section \/ stripped = <<>>
            THEN EntryLines(lines, i + 1, current, open, section)
            ELSE IF section = "relations"
            THEN (IF StartsWith(stripped, ItemStart) THEN <<line>> ELSE <<>>)
                     \o EntryLines(lines, i + 1, current, FALSE, section)
            ELSE IF StartsWith(stripped, AuthorStart)
            THEN <<line>> \o EntryLines(lines, i + 1, current, TRUE, section)
            ELSE IF open /\ Head(line) = " "
            THEN <<line>> \o EntryLines(lines, i + 1, current, TRUE, section)
            ELSE EntryLines(lines, i + 1, current, FALSE, section)

\* C24: the relation entries and the comment entries of a task file survive
\* the load-then-save of move_task and of update_task verbatim: the same
\* entries in the same order, a comment with its author line and its indented
\* date and text lines.
C24_EntriesSurviveRewrite ==
    [][((Ran("move_task") \/ Ran("KanbnTask.update")) /\ result'.success) =>
          \A section \in {"relations", "comments"} :
              EntryLines(files'[TaskId].body, 1, "none", FALSE, section)
                  = EntryLines(files[TaskId].body, 1, "none", FALSE, section)]_vars

\* C25: for every task file with a valid header, loading it, saving the loaded
\* task and loading the saved file gives the same task as loading it:
\* load(save(load(x))) = load(x) for header, title, description, sub-tasks,
\* relations and comments. (The index half of the claim is the same statement
\* about KanbnBoard.load and KanbnBoard.save.)
C25_RoundTripIdempotent ==
    \A task_id \in DOMAIN files :
        KanbnTask_load(KanbnTask_write(KanbnTask_load(files[task_id])))
            = KanbnTask_load(files[task_id])

\* Some line of the text is the given line, white space at its ends aside.
HasLine(lines, line) == \E j \in 1..Len(lines) : Strip(lines[j]) = Strip(line)

\* Line i of the body is a level-2 heading whose name KanbnTask.load does not
\* know.
UnknownHeading(body, i) ==
    StartsWith(Strip(body[i]), Level2) /\ SectionOf(Strip(body[i])) = "description"

\* C26: when a task file has a level-2 heading that is not Sub-tasks, Relations
\* or Comments, load keeps the heading line and the line under it in the
\* description, and the load-then-save of move_task writes both back.
C26_UnknownHeadingKept ==
    [][(Ran("move_task") /\ result'.success) =>
          \A i \in 1..Len(files[TaskId].body) :
              UnknownHeading(files[TaskId].body, i) =>
                  /\ HasLine(KanbnTask_load(files[TaskId]).description, files[TaskId].body[i])
                  /\ HasLine(files'[TaskId].body, files[TaskId].body[i])
                  /\ (/\ i < Len(files[TaskId].body)
                      /\ ~StartsWith(Strip(files[TaskId].body[i + 1]), <<"#">>))
                        => /\ HasLine(KanbnTask_load(files[TaskId]).description,
                                      files[TaskId].body[i + 1])
                           /\ HasLine(files'[TaskId].body, files[TaskId].body[i + 1])]_vars

\* C23: every controller operation that modifies an existing task file,
\* update_task with or without a rename and move_task when the file exists,
\* sets the updated field of the task to the time of the operation; so, the
\* clock never running backwards, updated never decreases, across a rename
\* too, and is never earlier than created.
C23_UpdatedStamped ==
    [][/\ (Ran("update_task") /\ result'.success)
             => /\ files'[result'.task_id].updated = clock
                /\ result'.renamed
                     => files'[result'.task_id].updated
                            >= files[result'.previous_task_id].updated
       /\ (Ran("move_task") /\ result'.success /\ result'.task_id \in DOMAIN files)
             => files'[result'.task_id].updated = clock
       /\ \A task_id \in DOMAIN files \cap DOMAIN files' :
             files'[task_id].updated >= files[task_id].updated
       /\ \A task_id \in DOMAIN files' :
             files'[task_id].updated >= files'[task_id].created]_vars

\* C23 witness: a task made at time 0 was renamed by an update_task at time 1
\* and its file, under the new identifier, carries the time of the update.
C23_Witness ==
    /\ result.op = "update_task"
    /\ result.success
    /\ result.renamed
    /\ result.previous_task_id \notin DOMAIN files
    /\ files[result.task_id].created = 0
    /\ files[result.task_id].updated = 1
    /\ clock = 1

\* C27: init_board on a directory whose index exists fails with the
\* already-exists error and leaves the index as it is; on a directory without
\* an index it writes an index whose columns are the supplied names in the
\* supplied order, the four default columns when none are supplied, each with
\* an empty list.
C27_InitBoard ==
    [][Ran("init_board") =>
          \A cols \in SetupColumnLists :
              init_board(cols) =>
                  IF indexExists
                  THEN /\ result'.success = FALSE
                       /\ result'.error = "Board already exists"
                       /\ UNCHANGED disk
                  ELSE /\ result'.success
                       /\ indexExists'
                       /\ [i \in 1..Len(columns') |-> columns'[i].name]
                              = IF cols = NoneArg \/ cols[1] = <<>>
                                THEN DEFAULT_COLUMNS ELSE cols[1]
                       /\ \A i \in 1..Len(columns') : columns'[i].tasks = <<>>]_vars

\* C28: the column behaviour consults only the options the index header holds
\* at the time of the operation. When the header has no startedColumns key,
\* add_task and move_task into any column, In Progress included, leave
\* started as it was (absent for a new task); when it has no completedColumns
\* key they leave completed and progress as they were, Done included. No
\* operation on an existing board adds a key to the header: the defaults are
\* merged in by board creation only.
C28_OnlyPersistedOptions ==
    [][/\ ((Ran("add_task") \/ Ran("move_task")) /\ result'.success
              /\ result'.task_id \in DOMAIN files')
             => LET task_id == result'.task_id
                    now == files'[task_id]
                    before == IF task_id \in DOMAIN files THEN files[task_id]
                              ELSE [started |-> None, completed |-> None, progress |-> 0]
                IN /\ "startedColumns" \notin DOMAIN options
                        => now.started = before.started
                   /\ "completedColumns" \notin DOMAIN options
                        => /\ now.completed = before.completed
                           /\ now.progress = before.progress
       /\ indexExists => options' = options]_vars

\* C28 witness: under a header without completedColumns a task was moved into
\* Done and carries no completed date.
C28_Witness ==
    /\ result.op = "move_task"
    /\ result.success
    /\ result.to_column = "Done"
    /\ "completedColumns" \notin DOMAIN options
    /\ result.task_id \in DOMAIN files
    /\ result.task_id \in ToSet(StoredTasks("Done"))
    /\ files[result.task_id].completed = None
    /\ files[result.task_id].progress = 0

\* Step 1 of the reference, position by position: a hyphen stands before the
\* first letter of every run of capitals that does not start the text, and
\* the capitals are in lower case.
RECURSIVE RefHyphenate(_, _)
RefHyphenate(text, n) ==
    IF n = 0 THEN <<>>
    ELSE RefHyphenate(text, n - 1)
             \o (IF text[n] \in Upper /\ n > 1 /\ text[n - 1] \notin Upper
                 THEN <<"-">> ELSE <<>>)
             \o <<LowerChar(text[n])>>

\* Steps 2 to 4 of the reference on the first n characters: the characters
\* that are not special in their order, with one hyphen wherever special
\* characters stood between two of them.
RECURSIVE RefJoin(_, _)
RefJoin(text, n) ==
    IF n = 0 THEN <<>>
    ELSE LET front == RefJoin(text, n - 1)
         IN IF text[n] \in Special THEN front
            ELSE IF front # <<>> /\ text[n - 1] \in Special
            THEN front \o <<"-", text[n]>>
            ELSE Append(front, text[n])

\* C29: to_kebab_case is total and equal to the four-step reference; it takes
\* "Setup FastAPI Project" to "setup-fast-api-project" and "SQLAlchemy" to
\* "sqlalchemy"; and no result holds a special character other than the
\* joining hyphen, a hyphen at either end, or two hyphens in a row.
C29_KebabReference ==
    [][Ran("to_kebab_case") =>
          LET text == result'.text
              id == result'.identifier
              hyphenated == RefHyphenate(text, Len(text))
          IN /\ text = result.text
             /\ id = RefJoin(hyphenated, Len(hyphenated))
             /\ text = <<"S", "e", "t", "u", "p", " ", "F", "a", "s", "t", "A", "P", "I",
                         " ", "P", "r", "o", "j", "e", "c", "t">>
                  => id = <<"s", "e", "t", "u", "p", "-", "f", "a", "s", "t", "-", "a",
                            "p", "i", "-", "p", "r", "o", "j", "e", "c", "t">>
             /\ text = <<"S", "Q", "L", "A", "l", "c", "h", "e", "m", "y">>
                  => id = <<"s", "q", "l", "a", "l", "c", "h", "e", "m", "y">>
             /\ \A i \in 1..Len(id) :
                   /\ id[i] \in Special => id[i] = "-"
                   /\ id[i] = "-" => i > 1 /\ i < Len(id) /\ id[i + 1] # "-"]_vars

\* C29 witness: the identifier of "SQLAlchemy" was derived and is "sqlalchemy".
C29_Witness ==
    /\ result.op = "to_kebab_case"
    /\ result.text = <<"S", "Q", "L", "A", "l", "c", "h", "e", "m", "y">>
    /\ result.identifier = <<"s", "q", "l", "a", "l", "c", "h", "e", "m", "y">>

\* C30: every operation entry point, the protocol tools that forward to the
\* controller among them, returns for every input and every disk state a
\* result whose success field is true or false; no exception escapes to the
\* caller.
C30_NoExceptionEscapes ==
    [][ops' # ops =>
          /\ "raised" \notin DOMAIN result'
          /\ "success" \in DOMAIN result'
          /\ result'.success \in BOOLEAN]_vars

\* C31: the identifier of every task file made and kept through add_task and
\* update_task is to_kebab_case of the name stored in that file, after any
\* sequence of add, update, move and get.
C31_IdentifierFollowsName ==
    \A task_id \in DOMAIN files :
        to_kebab_case(KanbnTask_load(files[task_id]).name) = task_id

\* The board object of a call lists task_id in some column.
Holds(call, task_id) ==
    \E i \in 1..Len(call.board.columns) : InSeq(task_id, call.board.columns[i].tasks)

\* Callers p and q have both returned success from add_task calls for
\* different names, and both had loaded the index before either saved it: the
\* call that saved first did so while the other held its loaded board, and
\* the index the two loaded listed neither of the two identifiers.
BothLoadedFirst(p, q) ==
    /\ running[p].pc = "returned" /\ running[q].pc = "returned"
    /\ running[p].returned.success /\ running[q].returned.success
    /\ to_kebab_case(running[p].name) # to_kebab_case(running[q].name)
    /\ running[q].number \in running[p].racing
    /\ ~Holds(running[p], to_kebab_case(running[q].name))
    /\ ~Holds(running[q], to_kebab_case(running[p].name))

\* C32: two add_task calls for different names that both load the index
\* before either saves it and both report success leave both task files on
\* disk and only one of the two identifiers listed in the index: an update is
\* lost.
C32_LostUpdate ==
    \A p \in Callers, q \in Callers :
        BothLoadedFirst(p, q) =>
            /\ {to_kebab_case(running[p].name), to_kebab_case(running[q].name)}
                   \subseteq DOMAIN files
            /\ Cardinality({to_kebab_case(running[p].name),
                            to_kebab_case(running[q].name)} \cap IndexedIds) = 1

C32_Witness ==
    /\ running # << >>
    /\ \E p \in Callers, q \in Callers : BothLoadedFirst(p, q)

\* C33: after any sequence of controller operations on a board made by
\* init_board, no column lists the same identifier twice.
C33_NoDuplicateInColumn ==
    \A i \in 1..Len(columns) :
        \A j, k \in 1..Len(columns[i].tasks) :
            columns[i].tasks[j] = columns[i].tasks[k] => j = k

\* C34: in every state the controller operations reach, a task file whose
\* completed field is set has progress 1.0.
C34_CompletedHasFullProgress ==
    \A task_id \in DOMAIN files :
        files[task_id].completed # None => files[task_id].progress = ProgressOne

\* C35: a move_task that takes a task out of a completed column into a column
\* that is neither a started nor a completed column leaves completed, the
\* progress of 1.0 and started as they were: in the task file only updated
\* changes.
C35_MoveOutOfCompleted ==
    [][\A task_id \in DescribedNames, column \in ColumnNames :
          ( /\ Ran("move_task")
            /\ result'.success
            /\ result'.task_id = task_id
            /\ result'.to_column = column
            /\ result'.from_column \in CompletedColumns
            /\ column \notin StartedColumns \cup CompletedColumns
            /\ TaskExists(files, task_id) )
          => files'[task_id] = [files[task_id] EXCEPT !.metadata.updated = clock]]_vars

\* C36: an add_task interrupted between the write of the task file and the
\* save of the index leaves a task file that no column lists; as long as the
\* file exists every add_task with that name is rejected as already existing
\* and changes nothing.
C36_InterruptedAddState ==
    [][/\ Ran("add_task_interrupted") =>
             /\ result'.task_id \in DOMAIN files'
             /\ result'.task_id \notin IndexedIds'
       /\ \A name \in Names, column \in ColumnNames :
             ( /\ Ran("add_task")
               /\ indexExists
               /\ HasColumn(KanbnBoard_load, column)
               /\ TaskExists(files, KebabOf[name])
               /\ add_task(name, column) )
             => /\ result' = [op |-> "add_task", success |-> FALSE,
                              error |-> "Task already exists"]
                /\ UNCHANGED disk]_vars

\* C37: in a run of completed controller operations that starts with
\* init_board, every task file on disk is listed in at least one column.
C37_EveryFileListed == DOMAIN files \subseteq IndexedIds

\* C38: a rename keeps the task in the column that listed the old identifier:
\* afterwards the new identifier is the last entry of that column and the
\* other entries of the column are in the order they had.
C38_RenameAppends ==
    [][(Ran("update_task") /\ result'.success /\ result'.renamed) =>
          LET task_id == result'.previous_task_id
              new_task_id == result'.task_id
              column == find_task_column(KanbnBoard_load, task_id)
          IN column # NoColumn =>
                /\ IsLast(new_task_id, StoredTasksAfter(column))
                /\ Without(Without(StoredTasksAfter(column), new_task_id), task_id)
                       = Without(Without(StoredTasks(column), task_id), new_task_id)]_vars

\* The column a specification of a batch names, or the default.
ColumnOf(task_spec, default_column) ==
    IF task_spec.column # NoneArg THEN task_spec.column[1] ELSE default_column

\* The positions of the specifications of a batch that add_task accepts, taken
\* in list order: a name is given, the board exists and has the column, and
\* the identifier has no task file and is not that of an earlier accepted
\* specification.
RECURSIVE Accepted(_, _, _)
Accepted(tasks, default_column, n) ==
    IF n = 0 THEN {}
    ELSE LET earlier == Accepted(tasks, default_column, n - 1)
             task_spec == tasks[n]
         IN IF /\ task_spec.name # NoneArg
               /\ task_spec.name[1] # << >>
               /\ indexExists
               /\ ColumnOf(task_spec, default_column) \in StoredColumns
               /\ to_kebab_case(task_spec.name[1]) \notin DOMAIN files
               /\ \A j \in earlier :
                     to_kebab_case(tasks[j].name[1]) # to_kebab_case(task_spec.name[1])
            THEN earlier \cup {n}
            ELSE earlier

\* C39: batch_add_tasks takes the specifications in list order, each as one
\* add_task; one that fails (no name, a column the board lacks, an identifier
\* that has a file or that an earlier specification of the batch made) neither
\* stops nor undoes the others; created_count + failed_count is the number of
\* specifications and success is true exactly when failed_count is 0.
C39_BatchCounts ==
    [][Ran("batch_add_tasks") =>
          LET tasks == result'.tasks
              default_column == result'.default_column
              accepted == Accepted(tasks, default_column, Len(tasks))
              in_order == SelectSeq([k \in 1..Len(tasks) |-> k], LAMBDA k : k \in accepted)
          IN /\ result'.created_count + result'.failed_count = Len(tasks)
             /\ result'.success = (result'.failed_count = 0)
             /\ result'.created_count = Cardinality(accepted)
             /\ [k \in 1..Len(result'.created) |-> result'.created[k].task_id]
                    = [k \in 1..Len(in_order) |-> to_kebab_case(tasks[in_order[k]].name[1])]
             /\ DOMAIN files'
                    = DOMAIN files \cup { to_kebab_case(tasks[i].name[1]) : i \in accepted }
             /\ \A task_id \in DOMAIN files : files'[task_id] = files[task_id]
             /\ \A i \in accepted :
                   InSeq(to_kebab_case(tasks[i].name[1]),
                         StoredTasksAfter(ColumnOf(tasks[i], default_column)))]_vars

\* A batch of two in which the first specification failed and the second was
\* created.
C39_Witness ==
    /\ result.op = "batch_add_tasks"
    /\ result.failed_count = 1
    /\ result.created_count = 1
    /\ "spec" \in DOMAIN result.failed[1]
    /\ DOMAIN files # {}

\* What get_task reads of the name and description in the file of task_id.
ReadBack(fs, task_id) ==
    [name |-> KanbnTask_load(fs[task_id]).name,
     description |-> KanbnTask_load(fs[task_id]).description]

\* C40: a task created by add_task with name n and description d is read back
\* by get_task with name n and description d, and keeps both across a later
\* move_task, and across an update_task that supplies neither, whatever d is:
\* also a d with lines that start with "# " or "## ".
C40_NameAndDescriptionKept ==
    [][/\ (Ran("add_task") /\ result'.success) =>
              ReadBack(files', result'.task_id)
                  = [name |-> result'.name, description |-> result'.description]
       /\ (Ran("move_task") /\ result'.success /\ result'.task_id \in DOMAIN files) =>
              ReadBack(files', result'.task_id) = ReadBack(files, result'.task_id)
       /\ (Ran("update_task") /\ result'.success /\ result'.name = NoneArg
             /\ result'.description = NoneArg) =>
              ReadBack(files', result'.task_id) = ReadBack(files, result'.task_id)
       /\ (Ran("get_task") /\ result'.success) =>
              [name |-> result'.name, description |-> result'.description]
                  = ReadBack(files, result'.id)]_vars

====
